---- MODULE Spec2Model ----
(***************************************************************************)
(* Model of captoolkit/crosscal.py: the robust solver (lsq_solve), the     *)
(* residual cross-calibration (cross_calibrate), the binning routines      *)
(* (binning, binning2, bin_mission), the seasonal normalisation            *)
(* (normalize_seasonal) and the grid loop of main.                         *)
(*                                                                         *)
(* Numbers.  The program computes with floating point numbers; the model   *)
(* computes with exact integers and rationals scaled to integers, so       *)
(* rounding is outside the model.  A missing value (NaN) is the empty      *)
(* tuple, a number v is the tuple <<v>>.  Time is counted in half months   *)
(* (1/24 year): one month, the bin width 1./12 of the program, is 2 units. *)
(*                                                                         *)
(* Each routine has a specification of its own (SpecLsq, SpecCC, ...)      *)
(* whose initial states draw the routine's inputs from bounded sets; the   *)
(* variables of the other routines stay at their idle values.              *)
(***************************************************************************)
EXTENDS Integers, Sequences, FiniteSets

VARIABLES
    \* ---- lsq_solve(X, y, n_iter, n_sigma, threshold)
    X,          \* design matrix: X[r] is the column holding the 1 of row r
    ncol,       \* number of columns of X
    y,          \* observations (numbers or NaN), aligned with X
    n,          \* pass counter (line 56)
    x,          \* coefficients of the last solve; <<>> while never assigned
    n_iter, n_sigma, threshold,
    lsq_pc,     \* "idle" | "loop" | "return" | "done"
    lsq_ret,    \* "pending" | "coefficients" | "raised"
    why,        \* how the loop was left: "" | "converged" | "few" | "cap"
    run,        \* 1: first call, 2: the call repeated on the survivors
    x_first, y_first, \* result and survivors of the first call
    why_first         \* how the first call left its loop

lsqVars == <<X, ncol, y, n, x, n_iter, n_sigma, threshold, lsq_pc, lsq_ret,
             why, run, x_first, y_first, why_first>>

VARIABLES
    \* ---- cross_calibrate(ti, hi, dh, mi, a)
    a,          \* gating strictness (main passes 0.0)
    cc_i,       \* index i of the overlap rule processed next (0, 1, 2)
    sel,        \* lines 574-575: [t0, h0, t1, h1], the times and residuals of
                \* groups mo[i,0] and mo[i,1] inside the window
    est,        \* lines 577-593: [b0, b1, n0, n1, diff], the binned series,
                \* the two bin counts and the median difference (all NaN
                \* after the except branch)
    diff,       \* the rule's difference after the test criterion (line 674)
    gappy,      \* a window with incomplete series has been processed
    b_ref,      \* running reference bias
    hb,         \* bias vector, one entry per observation
    flag,       \* correction flag
    gates,      \* per processed rule, the branch of the test criterion taken
    diffs,      \* per processed rule, the difference added to b_ref
    cc_pc       \* "idle" | "loop" | "done"

ccVars == <<a, cc_i, sel, est, diff, gappy, b_ref, hb, flag, gates, diffs,
            cc_pc>>


\* bin_mission (lines 104-184) and the binning2 it is built on.
VARIABLES
    bm_obs,     \* the observations (ti, hi, mi) handed to bin_mission
    tstart, tstop, tstep,
    win,        \* the binning window (overwritten at line 131)
    wi,         \* the weighting scale, NaN for None
    mu,         \* line 108: the missions present, ascending
    bm_i,       \* missions processed so far
    b2,         \* line 134: what binning2 returned for the last mission
    h_o,        \* line 137
    tbi, hbi, ebi, nbi, mbi,   \* the stacked rows (lines 114-118, 174-178)
    bm_pc

binVars == <<bm_obs, tstart, tstop, tstep, win, wi, mu, bm_i, b2, h_o,
             tbi, hbi, ebi, nbi, mbi, bm_pc>>

\* normalize_seasonal(xs, ys, ts, hs, ms, Xm, Ym, C0, C1, t0), lines 887-947.
VARIABLES
    ns_obs,     \* the observations (xs, ys, ts, ms)
    ref0, ref1, \* C0[0:3] and C1[0:3], the layers of the reference missions
    C0r, C1r,   \* lines 901-902
    ns_mi,      \* line 894: the missions present, ascending
    kx,         \* missions visited so far
    amps,       \* per visited mission: its id and the c0r, c1r, c0m, c1m of
                \* lines 921-926 (NaN where the mission is not corrected)
    h_out,      \* the correction, one entry per observation
    ns_pc

nsVars == <<ns_obs, ref0, ref1, C0r, C1r, ns_mi, kx, amps, h_out, ns_pc>>

\* main (lines 1118-1637): the loop over the grid cells and the save step.
VARIABLES
    nlim, dtlim, nmlim,     \* -z, -q (in months) and -k
    rcali, apply, serie,    \* -b, -a and -o
    tstep_,                 \* -s, the time step in months
    elev,                   \* len(elev), the observations of the input file
    cell_i,                 \* the index i of the prediction loop
    hood,                   \* the neighbourhood of the cell visited last
    h_cal_tot,              \* the cross-calibration container: what it holds
                            \* an entry for, and its length
    outs,                   \* the output lists (lines 1520-1534), one record
                            \* per appended cell
    h_cal,                  \* the field saved at line 1569 (NaN until then)
    main_pc,                \* "idle" | "loop" | "done" | "raised"
    raised_at               \* the line that raised (0: none)

mainVars == <<nlim, dtlim, nmlim, rcali, apply, serie, tstep_, elev, cell_i, hood,
              h_cal_tot, outs, h_cal, main_pc, raised_at>>

\* main, lines 1401-1438: the total correction of one fitted cell.
VARIABLES
    h_cal_fit,  \* the Stage A correction, one entry per binned observation
    h_cal_res,  \* the Stage B correction
    cal_flag,   \* main's flag (lines 1405 and 1426)
    cal_pc      \* "idle" | "fit" | "done"

calVars == <<h_cal_fit, h_cal_res, cal_flag, cal_pc>>

\* binning (lines 187-212): one call.
VARIABLES
    fx_x, fx_y,      \* x and y
    fx_min, fx_max,  \* xmin and xmax
    fx_out,          \* what the call returned (or that it raised)
    fx_pc            \* "idle" | "call" | "done"

fxVars == <<fx_x, fx_y, fx_min, fx_max, fx_out, fx_pc>>

\* design_matrix (lines 442-479) and main's use of it (lines 1373-1402).
VARIABLES
    dm_t, dm_m,   \* t and m
    dm_A,         \* A: one row per observation, columns counted from 0
    dm_mi,        \* np.unique(m)
    dm_cols,      \* cols
    dm_i,         \* turns of the loop of line 462 taken
    dm_Cm,        \* what lsq_solve returned (line 1383)
    dm_fit,       \* h_cal_fit of line 1402
    dm_pc         \* "idle" | "call" | "loop" | "solve" | "done" | "raised"

dmVars == <<dm_t, dm_m, dm_A, dm_mi, dm_cols, dm_i, dm_Cm, dm_fit, dm_pc>>

vars == <<lsqVars, ccVars, binVars, nsVars, mainVars, calVars, fxVars, dmVars>>

lsqOthers == <<ccVars, binVars, nsVars, mainVars, calVars, fxVars, dmVars>>
ccOthers == <<lsqVars, binVars, nsVars, mainVars, calVars, fxVars, dmVars>>
binOthers == <<lsqVars, ccVars, nsVars, mainVars, calVars, fxVars, dmVars>>
nsOthers == <<lsqVars, ccVars, binVars, mainVars, calVars, fxVars, dmVars>>
mainOthers == <<lsqVars, ccVars, binVars, nsVars, calVars, fxVars, dmVars>>
calOthers == <<lsqVars, binVars, nsVars, fxVars, dmVars>>
fxOthers == <<lsqVars, ccVars, binVars, nsVars, mainVars, calVars, dmVars>>
dmOthers == <<lsqVars, ccVars, binVars, nsVars, mainVars, calVars, fxVars>>

(***************************************************************************)
(* Bounds of the model.                                                    *)
(***************************************************************************)
MaxObs  == 5     \* rows handed to lsq_solve
MaxCols == 2     \* columns of the design matrix handed to lsq_solve
MaxIter == 1     \* largest iteration cap n_iter explored
MaxSlot == 1     \* observation times offered per group and window: 0..MaxSlot
MaxBinObs == 2   \* observations handed to bin_mission
MaxCells == 2    \* grid cells of the prediction loop
NPoints == 12    \* observations within the search radius of a cell, at most
MaxBlocks == 3   \* runs of one mission in the vector handed to design_matrix

(***************************************************************************)
(* Idle values: what the variables of a routine hold while another         *)
(* routine's specification runs.                                           *)
(***************************************************************************)
LsqIdle ==
    /\ X = <<>> /\ ncol = 0 /\ y = <<>> /\ n = 0 /\ x = <<>>
    /\ n_iter = 0 /\ n_sigma = 0 /\ threshold = 0
    /\ lsq_pc = "idle" /\ lsq_ret = "pending" /\ why = "" /\ run = 0
    /\ x_first = <<>> /\ y_first = <<>> /\ why_first = ""

CCIdle ==
    /\ a = 0 /\ cc_i = 0
    /\ sel = <<>> /\ est = <<>> /\ diff = 0 /\ gappy = FALSE
    /\ b_ref = 0 /\ hb = <<>> /\ flag = 0 /\ gates = <<>> /\ diffs = <<>>
    /\ cc_pc = "idle"

BinIdle ==
    /\ bm_obs = <<>> /\ tstart = 0 /\ tstop = 0 /\ tstep = 0 /\ win = 0 /\ wi = <<>>
    /\ mu = <<>> /\ bm_i = 0 /\ b2 = <<>> /\ h_o = <<>>
    /\ tbi = <<>> /\ hbi = <<>> /\ ebi = <<>> /\ nbi = <<>> /\ mbi = <<>>
    /\ bm_pc = "idle"

NsIdle ==
    /\ ns_obs = <<>> /\ ref0 = <<>> /\ ref1 = <<>> /\ C0r = <<>> /\ C1r = <<>>
    /\ ns_mi = <<>> /\ kx = 0 /\ amps = <<>> /\ h_out = <<>> /\ ns_pc = "idle"

MainIdle ==
    /\ nlim = 0 /\ dtlim = 0 /\ nmlim = 0
    /\ rcali = FALSE /\ apply = FALSE /\ serie = FALSE /\ tstep_ = 0 /\ elev = 0
    /\ cell_i = 0 /\ hood = <<>> /\ h_cal_tot = <<>> /\ outs = <<>> /\ h_cal = <<>>
    /\ main_pc = "idle" /\ raised_at = 0

CalIdle == h_cal_fit = <<>> /\ h_cal_res = <<>> /\ cal_flag = 0 /\ cal_pc = "idle"

FxIdle ==
    /\ fx_x = <<>> /\ fx_y = <<>> /\ fx_min = 0 /\ fx_max = 0 /\ fx_out = <<>>
    /\ fx_pc = "idle"

DmIdle ==
    /\ dm_t = <<>> /\ dm_m = <<>> /\ dm_A = <<>> /\ dm_mi = <<>> /\ dm_cols = <<>>
    /\ dm_i = 0 /\ dm_Cm = <<>> /\ dm_fit = <<>> /\ dm_pc = "idle"

(***************************************************************************)
(* Numbers, NaN and the numpy reductions used by the program.              *)
(***************************************************************************)
NaN == <<>>
Num(v) == <<v>>
IsNaN(v) == v = NaN
Val(v) == v[1]

Abs(i) == IF i < 0 THEN -i ELSE i

RECURSIVE SeqSum(_)
SeqSum(s) == IF s = <<>> THEN 0 ELSE Head(s) + SeqSum(Tail(s))

\* The subsequence of s at the indices satisfying keep (boolean indexing).
RECURSIVE Mask(_, _)
Mask(s, keep) ==
    IF s = <<>> THEN <<>>
    ELSE (IF Head(keep) THEN <<Head(s)>> ELSE <<>>) \o Mask(Tail(s), Tail(keep))

\* k-th smallest element of a non-empty sequence of integers.
KthSmallest(s, k) ==
    CHOOSE v \in {s[i] : i \in DOMAIN s} :
        /\ Cardinality({i \in DOMAIN s : s[i] < v}) < k
        /\ Cardinality({i \in DOMAIN s : s[i] <= v}) >= k

\* Twice the median of a non-empty sequence of integers (np.median averages
\* the two middle elements of an even-length array).
Median2(s) ==
    LET len == Len(s) IN
    IF len % 2 = 1 THEN 2 * KthSmallest(s, (len + 1) \div 2)
    ELSE KthSmallest(s, len \div 2) + KthSmallest(s, len \div 2 + 1)

\* mad_std(x) = 1.4826 * median(|x - median(x)|), with 1.4826 = MadNum/MadDen.
\* Mad4(s) is 4 * median(|s - median(s)|) for a non-empty integer sequence.
MadNum == 7413
MadDen == 5000
Deviations2(s, m2) == [i \in DOMAIN s |-> Abs(2 * s[i] - m2)]
Mad4(s) == Median2(Deviations2(s, Median2(s)))

(***************************************************************************)
(* lsq_solve (lines 53-102).                                               *)
(*                                                                         *)
(* The design matrices explored are blocks of indicator columns (the       *)
(* mission block of design_matrix): row r has a 1 in column X[r] and 0     *)
(* elsewhere.  For such a matrix np.linalg.lstsq returns, per column, the  *)
(* mean of the observations of its rows, and 0 for a column without rows   *)
(* (the minimum-norm solution).  A coefficient is kept as the exact        *)
(* fraction s/c, c = 0 standing for the coefficient 0.                     *)
(***************************************************************************)
RECURSIVE Gcd(_, _)
Gcd(p, q) == IF q = 0 THEN p ELSE Gcd(q, p % q)
RECURSIVE Lcm(_)
Lcm(k) == IF k <= 1 THEN 1 ELSE (Lcm(k - 1) * k) \div Gcd(Lcm(k - 1), k)
Scale == Lcm(MaxObs)        \* a multiple of every row count

lstsq(Xm, ym, k) ==
    [j \in 1..k |->
        LET rows == {r \in DOMAIN Xm : Xm[r] = j} IN
        [s |-> SeqSum(Mask([r \in DOMAIN ym |-> Val(ym[r])], [r \in DOMAIN Xm |-> Xm[r] = j])),
         c |-> Cardinality(rows)]]

\* Scale * (y - X.dot(x)): the residuals, as integers (line 81).
Residuals(Xm, ym, coef) ==
    [r \in DOMAIN ym |->
        Scale * Val(ym[r]) - (Scale \div coef[Xm[r]].c) * coef[Xm[r]].s]

\* Line 84: |res| > n_sigma * mad_std(res)  or  |res| > threshold.
OutlierRule(absres, mad4, nsig, thr) ==
    \/ 4 * MadDen * absres > MadNum * nsig * mad4
    \/ absres > thr * Scale

OutliersGiven(res, mad4, nsig, thr) ==
    [r \in DOMAIN res |-> OutlierRule(Abs(res[r]), mad4, nsig, thr)]
Outliers(res, nsig, thr) == OutliersGiven(res, Mad4(res), nsig, thr)

\* Line 87: y[i_o] = np.nan.
Marked(yv, i_o) == [r \in DOMAIN yv |-> IF i_o[r] THEN NaN ELSE yv[r]]

\* Line 93: the loop is left when the pass marked no observation.
NoneMarkedOffByOne(n_out, n_obs) == n_out >= n_obs - 1
NoneMarked(n_out, n_obs) == n_out = n_obs

\* Line 75: the system is solved only with more than n_lim + 1 observations.
CanSolve(n_obs, n_lim) == n_obs > n_lim + 1

\* Lines 62-66: rows with a NaN observation are dropped.
Valid(ym) == [r \in DOMAIN ym |-> ~IsNaN(ym[r])]

\* One pass of the while loop (lines 59-100).
LsqPass ==
    /\ lsq_pc = "loop"
    /\ n <= n_iter
    /\ X' = Mask(X, Valid(y))
    /\ IF CanSolve(Len(X'), ncol)
       THEN /\ x' = lstsq(X', Mask(y, Valid(y)), ncol)
            /\ y' = Marked(Mask(y, Valid(y)),
                           Outliers(Residuals(X', Mask(y, Valid(y)), x'),
                                    n_sigma, threshold))
            /\ IF NoneMarked(Len(Mask(y', Valid(y'))), Len(X'))
               THEN lsq_pc' = "return" /\ why' = "converged" /\ n' = n
               ELSE lsq_pc' = "loop" /\ why' = why /\ n' = n + 1
       ELSE /\ x' = x
            /\ y' = Mask(y, Valid(y))
            /\ lsq_pc' = "return" /\ why' = "few" /\ n' = n
    /\ UNCHANGED <<ncol, n_iter, n_sigma, threshold, lsq_ret, run, x_first, y_first,
                   why_first>>
    /\ UNCHANGED lsqOthers

\* The loop condition fails (line 59): the iteration cap is used up.
LsqCap ==
    /\ lsq_pc = "loop"
    /\ n > n_iter
    /\ lsq_pc' = "return"
    /\ why' = "cap"
    /\ UNCHANGED <<X, ncol, y, n, x, n_iter, n_sigma, threshold, lsq_ret, run,
                   x_first, y_first, why_first>>
    /\ UNCHANGED lsqOthers

\* Line 102, return x: x is a local that only line 78 assigns, so the
\* statement raises UnboundLocalError when no pass solved the system.
LsqReturn ==
    /\ lsq_pc = "return"
    /\ lsq_pc' = "done"
    /\ lsq_ret' = IF x = <<>> THEN "raised" ELSE "coefficients"
    /\ UNCHANGED <<X, ncol, y, n, x, n_iter, n_sigma, threshold, why, run,
                   x_first, y_first, why_first>>
    /\ UNCHANGED lsqOthers

\* The caller runs lsq_solve again, with the same settings, on the rows and
\* observations the first call ended with (lines 53-56: a fresh n and x).
LsqRerun ==
    /\ lsq_pc = "done"
    /\ run = 1
    /\ lsq_ret = "coefficients"
    /\ run' = 2
    /\ x_first' = x
    /\ y_first' = y
    /\ why_first' = why
    /\ n' = 0
    /\ x' = <<>>
    /\ lsq_pc' = "loop"
    /\ lsq_ret' = "pending"
    /\ why' = ""
    /\ UNCHANGED <<X, ncol, y, n_iter, n_sigma, threshold>>
    /\ UNCHANGED lsqOthers

YVals == {NaN, Num(0), Num(1), Num(2), Num(20)}
NSigmas == {5}           \* n_sigma, as the default and as main passes it
Thresholds == {10, 100}  \* threshold: main passes 10, the default is 100

\* Rows are listed column by column, as design_matrix receives them from
\* bin_mission (one block of rows per mission).
LsqInputs ==
    {in \in [X : UNION {[1..len -> 1..MaxCols] : len \in 0..MaxObs},
             ncol : 1..MaxCols] :
        /\ \A r \in DOMAIN in.X : in.X[r] <= in.ncol
        /\ \A r \in DOMAIN in.X : r > 1 => in.X[r - 1] <= in.X[r]}

\* The solver treats its rows alike (the solution, the median and the
\* outlier rule do not depend on the order of the rows), so the rows of one
\* column are listed with their observations ascending, NaN first.
YKey(v) == IF IsNaN(v) THEN 0 - 1 ELSE Val(v)
LsqObservations(Xm) ==
    {ym \in [DOMAIN Xm -> YVals] :
        \A r \in DOMAIN Xm :
            (r > 1 /\ Xm[r - 1] = Xm[r]) => YKey(ym[r - 1]) <= YKey(ym[r])}

InitLsq ==
    /\ \E in \in LsqInputs :
          /\ X = in.X
          /\ ncol = in.ncol
          /\ y \in LsqObservations(in.X)
    /\ n = 0
    /\ x = <<>>
    /\ n_iter \in 0..MaxIter
    /\ n_sigma \in NSigmas
    /\ threshold \in Thresholds
    /\ lsq_pc = "loop"
    /\ lsq_ret = "pending"
    /\ why = ""
    /\ run = 1
    /\ x_first = <<>>
    /\ y_first = <<>>
    /\ why_first = ""
    /\ CCIdle
    /\ BinIdle
    /\ NsIdle
    /\ MainIdle
    /\ CalIdle
    /\ FxIdle
    /\ DmIdle

NextLsq == LsqPass \/ LsqCap \/ LsqReturn \/ LsqRerun

SpecLsq == InitLsq /\ [][NextLsq]_vars

(***************************************************************************)
(* Claims about lsq_solve.                                                 *)
(***************************************************************************)

\* C3: when the loop is left because the valid observations are at most
\* n_lim + 1 (on the first pass or on a later one), lsq_solve returns a
\* result that says "no fit": it neither raises nor hands back coefficients.
\* The routine has no such result: it returns x or fails on the unbound x.
C3_UnderdeterminedReturnsNoFit ==
    (lsq_pc = "done" /\ why = "few") => lsq_ret = "nofit"

\* C4: a pass that marks no observation ends the loop with every surviving
\* observation still valid, and lsq_solve run again on the survivors of
\* such a call stops on its first pass with the same coefficients and the
\* same observations.
C4_Idempotent ==
    /\ (why = "converged" /\ lsq_pc \in {"return", "done"}) =>
           /\ \A r \in DOMAIN y : ~IsNaN(y[r])
           /\ x = lstsq(X, y, ncol)
    /\ (run = 2 /\ why_first = "converged" /\ lsq_pc = "done") =>
           /\ lsq_ret = "coefficients"
           /\ why = "converged"
           /\ n = 0
           /\ x = x_first
           /\ y = y_first

\* A first call that removed an outlier and then converged has been run again.
C4_Witness ==
    /\ run = 2 /\ why_first = "converged" /\ lsq_pc = "done"
    /\ Len(y_first) >= 3
    /\ \E r \in DOMAIN y_first : y_first[r] # y_first[1]

(***************************************************************************)
(* binning (lines 187-212): fixed bins of width dx over [xmin, xmax].      *)
(***************************************************************************)
DX == 2     \* one month, the dx = 1./12 of every call, in half months

\* np.arange(lo, hi, step) for integers, step > 0.
ARange(lo, hi, step) ==
    [k \in 1..(IF hi > lo THEN (hi - lo + step - 1) \div step ELSE 0) |->
        lo + (k - 1) * step]

\* The median of a non-empty sequence of even integers.  Heights are kept in
\* quarter units and are multiples of 4, so that the median of a bin and the
\* median of differences of bin medians stay integers.
Quarter == 2 * 2
Median(s) == Median2(s) \div 2

\* np.nanmedian over a sequence of numbers / NaN.
Finite(s) == Mask(s, Valid(s))
Vals(f) == [k \in DOMAIN f |-> Val(f[k])]
FiniteVals(s) == Vals(Finite(s))
MedianOrNaN(f) == IF f = <<>> THEN NaN ELSE Num(Median(f))
NanMedian(s) == MedianOrNaN(FiniteVals(s))

\* Line 200: a bin takes the observations with bins[i] <= x <= bins[i+1],
\* both edges included.
InBin(xv, lo, hi) == xv >= lo /\ xv <= hi
BinMembers(xs, ys, lo, hi) == Mask(ys, [r \in DOMAIN xs |-> InBin(xs[r], lo, hi)])

\* Lines 202-209: yb and nb of a bin stay NaN when it has no observation.
BinMedian(ybv) == IF ybv = <<>> THEN NaN ELSE NanMedian(ybv)
BinCount(ybv) == IF ybv = <<>> THEN NaN ELSE Num(Len(ybv))

\* Lines 192-212 for the bin edges `bins` and the bin starts `starts`.
Binned(xs, ys, bins, starts, dx) ==
    IF Len(bins) = 0
    THEN [raised |-> TRUE, xb |-> <<>>, yb |-> <<>>, nb |-> <<>>]
    ELSE [raised |-> FALSE,
          xb |-> [k \in DOMAIN starts |-> starts[k] + dx \div 2],
          yb |-> [k \in 1..(Len(bins) - 1) |->
                     BinMedian(BinMembers(xs, ys, bins[k], bins[k + 1]))],
          nb |-> [k \in 1..(Len(bins) - 1) |->
                     BinCount(BinMembers(xs, ys, bins[k], bins[k + 1]))]]

\* binning(x, y, xmin, xmax, dx).  np.ones(len(bins) - 1) raises ValueError
\* when bins is empty.
binning(xs, ys, xmin, xmax, dx) ==
    Binned(xs, ys, ARange(xmin, xmax + dx, dx), ARange(xmin, xmax, dx), dx)

(***************************************************************************)
(* cross_calibrate (lines 545-682).                                        *)
(***************************************************************************)
\* Satellite overlap periods `to` (lines 555-557), in half months since
\* 1992.0, and the satellite index vector `mo` (lines 560-562).
to == << <<70, 118>>, <<248, 288>>, <<432, 464>> >>
mo == << <<1, 0>>, <<2, 1>>, <<3, 2>> >>
NRules == Len(to)

NoGroup == -1        \* msat of a mission outside the four groups (NaN, line 1414)
BiasLimit == 10      \* line 665

MinOf(s) == CHOOSE v \in {s[k] : k \in DOMAIN s} : \A k \in DOMAIN s : v <= s[k]
MaxOf(s) == CHOOSE v \in {s[k] : k \in DOMAIN s} : \A k \in DOMAIN s : v >= s[k]

\* Line 571 and lines 574-575: the observations of group g inside window i.
InWindow(tv, i) == tv >= to[i + 1][1] /\ tv <= to[i + 1][2]
Select(obs, i, g) ==
    Mask(obs, [r \in DOMAIN obs |-> InWindow(obs[r].t, i) /\ obs[r].m = g])

\* np.nanmedian(b0 - b1) (line 589).
BinDiffSwapped(s0, s1) ==
    [k \in DOMAIN s0 |->
        IF IsNaN(s0[k]) \/ IsNaN(s1[k]) THEN NaN ELSE Num(Val(s1[k]) - Val(s0[k]))]
BinDiff(s0, s1) ==
    [k \in DOMAIN s0 |->
        IF IsNaN(s0[k]) \/ IsNaN(s1[k]) THEN NaN ELSE Num(Val(s0[k]) - Val(s1[k]))]

\* Line 586 and line 587.
CountN0(s0, s1) == Len(Mask(s0, Valid(s0)))
CountN1(s0, s1) == Len(Mask(s1, Valid(s0)))

\* Lines 577-593.  The try block fails (t0.min() or t1.max() of an empty
\* array, or binning raising) into the except branch, which sets all to NaN.
FailedStale == [b0 |-> NaN, b1 |-> NaN, n0 |-> Num(2), n1 |-> Num(2), diff |-> Num(Quarter)]
Failed == [b0 |-> NaN, b1 |-> NaN, n0 |-> NaN, n1 |-> NaN, diff |-> NaN]
EstimateBinned(r0, r1) ==
    IF r0.raised \/ r1.raised THEN Failed
    ELSE [b0 |-> r0.yb, b1 |-> r1.yb,
          n0 |-> Num(CountN0(r0.yb, r1.yb)),
          n1 |-> Num(CountN1(r0.yb, r1.yb)),
          diff |-> NanMedian(BinDiff(r0.yb, r1.yb))]
EstimateOver(st0, sh0, st1, sh1, tmin, tmax) ==
    EstimateBinned(binning(st0, sh0, tmin, tmax, DX), binning(st1, sh1, tmin, tmax, DX))
Estimate(st0, sh0, st1, sh1) ==
    IF st0 = <<>> \/ st1 = <<>> THEN Failed
    ELSE EstimateOver(st0, sh0, st1, sh1, MinOf(st0) - DX, MaxOf(st1) + DX)

\* Lines 584-585, 636-640 and 660: (i0_max > i1_min) and (i0_min < i1_max)
\* with i0 = b0m -+ a*s0, i1 = b1m -+ a*s1, b0m = nanmean(b0),
\* b1m = nanmean(b1), s0 = nanstd(b0) and s1 = nanstd(b0) (line 585 takes
\* the spread of b0 for both).  For a >= 0 the two comparisons are
\* |b0m - b1m| < a*(s0 + s1) = 2*a*s0; with c0, c1 the finite entries of
\* b0, b1, sums S0, S1 and sum of squares Q0, squaring both sides gives
\*   (S0*c1 - S1*c0)^2 < 4 * a^2 * (c0*Q0 - S0^2) * c1^2 .
\* A NaN mean makes both comparisons false.
Squares(f) == [k \in DOMAIN f |-> f[k] * f[k]]
OverlapMoments(c0, c1, S0, S1, Q0, av) ==
    /\ c0 > 0 /\ c1 > 0
    /\ (S0 * c1 - S1 * c0) * (S0 * c1 - S1 * c0)
          < 4 * av * av * (c0 * Q0 - S0 * S0) * c1 * c1
OverlapFinite(f0, f1, av) ==
    OverlapMoments(Len(f0), Len(f1), SeqSum(f0), SeqSum(f1), SeqSum(Squares(f0)), av)
IntervalsOverlap(s0, s1, av) == OverlapFinite(FiniteVals(s0), FiniteVals(s1), av)

\* Lines 642-647.
NLim(i) == 1

\* Lines 649-671, the test criterion: the branch taken.
Criterion(i, e, av) ==
    IF IsNaN(e.diff) THEN "nan"
    ELSE IF Val(e.n0) <= NLim(i) \/ Val(e.n1) <= NLim(i) THEN "nlim"
    ELSE IF i # 0 /\ IntervalsOverlap(e.b0, e.b1, av) THEN "interval"
    ELSE IF Abs(Val(e.diff)) > BiasLimit * Quarter THEN "bias"
    ELSE "none"

\* The observations whose entry of hb the model follows: one observation per
\* group (and one of a mission outside every group), inside and outside the
\* overlap windows.
Groups == 0..NRules
Probes == [m : Groups \cup {NoGroup}, inside : BOOLEAN]

\* Line 674: hb[mi == mo[i, 0]] = b_ref + diff.
AssignBiasInWindow(hbv, i, val) ==
    [p \in DOMAIN hbv |-> IF p.m = mo[i + 1][1] /\ p.inside THEN val ELSE hbv[p]]
AssignBias(hbv, i, val) ==
    [p \in DOMAIN hbv |-> IF p.m = mo[i + 1][1] THEN val ELSE hbv[p]]

\* Lines 674 and 677: the running reference plus the rule's difference.
LedgerReset(ref, d) == IF d = 0 THEN 0 ELSE ref + d
LedgerRestarted(ref, d) == d
Ledger(ref, d) == ref + d

\* Line 680.
CountsEvery(d) == TRUE
Counts(d) == d # 0

\* The two series offered to a rule.  Per group and slot s an observation at
\* time to[i,0] + DX*s is absent, present with a NaN residual, or present
\* with the residual Signal(s) + level, the same underlying signal for both
\* groups; the group mo[i,1] is at level 0, the group mo[i,0] at level lev.
\* Complete series (every slot a value), or no observation at all, may be
\* offered to every rule; series with gaps to one rule of a call.  The level
\* is immaterial for a group without a value.
Slots == 0..MaxSlot
Cells == {"absent", "nan", "val"}
Offsets == {0 - 1, 2, 3, 12}
AVals == {0, 2}
Signal(s) == s * s
SlotTime(i, s) == to[i + 1][1] + DX * s

Complete(cells) == \A s \in Slots : cells[s] = "val"
Empty(cells) == \A s \in Slots : cells[s] = "absent"
Regular(c0, c1) == (Complete(c0) /\ Complete(c1)) \/ (Empty(c0) /\ Empty(c1))

RECURSIVE Series(_, _, _, _, _)
Series(i, g, cells, lev, s) ==
    IF s > MaxSlot THEN <<>>
    ELSE (IF cells[s] = "absent" THEN <<>>
          ELSE << [t |-> SlotTime(i, s), m |-> g,
                   h |-> IF cells[s] = "nan" THEN NaN
                         ELSE Num(Quarter * (Signal(s) + lev))] >>)
         \o Series(i, g, cells, lev, s + 1)

Times(obs) == [r \in DOMAIN obs |-> obs[r].t]
Heights(obs) == [r \in DOMAIN obs |-> obs[r].h]

\* Lines 570-575.
Selection(obs, i) ==
    LET o0 == Select(obs, i, mo[i + 1][1])
        o1 == Select(obs, i, mo[i + 1][2])
    IN  [t0 |-> Times(o0), h0 |-> Heights(o0), t1 |-> Times(o1), h1 |-> Heights(o1)]

\* Lines 649-671: the difference after the test criterion.
GatedButBias(branch, d) == IF branch \in {"none", "bias"} THEN Val(d) ELSE 0
Gated(branch, d) == IF branch = "none" THEN Val(d) ELSE 0

\* One turn of the loop over the overlaps (lines 568-680).
CCRule ==
    /\ cc_pc = "loop"
    /\ cc_i < NRules
    /\ \E c0 \in [Slots -> Cells], c1 \in [Slots -> Cells], lev \in Offsets :
         /\ Regular(c0, c1) \/ ~gappy
         /\ lev = 2 \/ \E s \in Slots : c0[s] = "val"
         /\ gappy' = (gappy \/ ~Regular(c0, c1))
         /\ sel' = Selection(Series(cc_i, mo[cc_i + 1][2], c1, 0, 0)
                             \o Series(cc_i, mo[cc_i + 1][1], c0, lev, 0), cc_i)
    /\ est' = Estimate(sel'.t0, sel'.h0, sel'.t1, sel'.h1)
    /\ gates' = Append(gates, Criterion(cc_i, est', a))
    /\ diff' = Gated(gates'[cc_i + 1], est'.diff)
    /\ hb' = AssignBias(hb, cc_i, Ledger(b_ref, diff'))
    /\ b_ref' = Ledger(b_ref, diff')
    /\ flag' = IF Counts(diff') THEN flag + 1 ELSE flag
    /\ diffs' = Append(diffs, diff')
    /\ cc_i' = cc_i + 1
    /\ UNCHANGED <<a, cc_pc>>
    /\ UNCHANGED ccOthers

\* Line 682: return hb, flag.
CCReturn ==
    /\ cc_pc = "loop"
    /\ cc_i = NRules
    /\ cc_pc' = "done"
    /\ UNCHANGED <<a, cc_i, sel, est, diff, gappy, b_ref, hb, flag, gates, diffs>>
    /\ UNCHANGED ccOthers

\* Lines 548-565.
InitCC ==
    /\ a \in AVals
    /\ cc_i = 0
    /\ sel = <<>> /\ est = <<>> /\ diff = 0 /\ gappy = FALSE
    /\ b_ref = 0
    /\ hb = [p \in Probes |-> 0]
    /\ flag = 0
    /\ gates = <<>>
    /\ diffs = <<>>
    /\ cc_pc = "loop"
    /\ LsqIdle
    /\ BinIdle
    /\ NsIdle
    /\ MainIdle
    /\ CalIdle
    /\ FxIdle
    /\ DmIdle

NextCC == CCRule \/ CCReturn

SpecCC == InitCC /\ [][NextCC]_vars

(***************************************************************************)
(* Claims about cross_calibrate.                                           *)
(***************************************************************************)
RECURSIVE CumSum(_, _)
CumSum(s, k) == IF k = 0 THEN 0 ELSE s[k] + CumSum(s, k - 1)

HbOf(g) == {hb[p] : p \in {q \in Probes : q.m = g}}

\* C1: after the rules 1..k have been processed, every observation of the
\* target group of rule k carries the cumulative sum of the differences of
\* rules 1..k (a gated rule contributing 0), the observations of group 0 and
\* of missions outside the groups carry 0, and the groups of rules not yet
\* processed carry 0; with ungated differences +2, +3, -1 the groups
\* 0, 1, 2, 3 end with 0, +2, +5, +4.
C1_BiasChaining ==
    /\ \A k \in 1..NRules :
          HbOf(mo[k][1]) = {IF k <= cc_i THEN CumSum(diffs, k) ELSE 0}
    /\ HbOf(0) = {0}
    /\ HbOf(NoGroup) = {0}
    /\ b_ref = CumSum(diffs, cc_i)
    /\ (cc_pc = "done" /\ diffs = <<2 * Quarter, 3 * Quarter, (0 - 1) * Quarter>>) =>
          /\ HbOf(1) = {2 * Quarter}
          /\ HbOf(2) = {5 * Quarter}
          /\ HbOf(3) = {4 * Quarter}

\* The three rules gave the ungated differences +2, +3 and -1.
C1_Witness ==
    /\ cc_pc = "done"
    /\ diffs = <<2 * Quarter, 3 * Quarter, (0 - 1) * Quarter>>
    /\ \A k \in 1..NRules : gates[k] = "none"
    /\ HbOf(3) = {4 * Quarter}

\* The populated (non-NaN) monthly bins of a binned series.
Populated(b) == IF IsNaN(b) THEN 0 ELSE Len(Finite(b))

\* C2: a rule for which either group has at most one populated monthly bin
\* gets the difference zero and does not increment the success counter.
C2_FewBinsGated ==
    [][(cc_i' = cc_i + 1 /\ (Populated(est'.b0) <= 1 \/ Populated(est'.b1) <= 1))
         => (diff' = 0 /\ flag' = flag)]_vars

\* The two selected series have the same times and the same values up to the
\* constant d: h0 = h1 + d.
ShiftedBy(w, d) ==
    /\ w.t0 = w.t1
    /\ Len(w.h0) = Len(w.h1)
    /\ \A r \in DOMAIN w.h0 :
          IF IsNaN(w.h0[r]) THEN IsNaN(w.h1[r])
          ELSE ~IsNaN(w.h1[r]) /\ Val(w.h0[r]) = Val(w.h1[r]) + d

\* The case of C7 for the rule just processed and the constant d.
RecoveryCase(d) ==
    /\ cc_i > 0
    /\ ShiftedBy(sel, d)
    /\ Populated(est.b0) >= 3
    /\ Populated(est.b1) >= 3
    /\ ~IntervalsOverlap(est.b0, est.b1, a)

\* C7 as stated: two series that differ by the constant D, with at least 3
\* populated bins each and confidence intervals that do not overlap, give
\* the rule the difference D.
C7_RecoversOffset ==
    \A l \in Offsets : RecoveryCase(Quarter * l) => diff = Quarter * l

\* C7 amended: the median difference of the binned series is D, and the rule's
\* difference is D when |D| <= 10 and 0 when |D| > 10.
C7_RecoversBoundedOffset ==
    \A l \in Offsets :
        RecoveryCase(Quarter * l) =>
            /\ est.diff = Num(Quarter * l)
            /\ diff = IF Abs(l) <= BiasLimit THEN Quarter * l ELSE 0

\* A rule with confidence intervals of non-zero width recovered the offset 3.
C7_Witness ==
    /\ RecoveryCase(Quarter * 3)
    /\ a = 2
    /\ cc_i = 2
    /\ diff = Quarter * 3

(***************************************************************************)
(* binning2 (lines 685-745) without re-interpolation, as bin_mission calls *)
(* it.  Times are in half months, so that the half of every window used    *)
(* (1, 3 and 6 months) is a whole number.                                  *)
(***************************************************************************)
\* The center of a bin: 0.5 * (t1 + t2).
BinCenter(t1, t2) == (t1 + t2) \div 2

\* Lines 714-716: a bin without observation gets its center and nothing else.
EmptyBinCenterUnset(t1, t2) == NaN
EmptyBinCenter(t1, t2) == Num(BinCenter(t1, t2))

\* Line 712: idx, = np.where((x >= t1) & (x <= t2)).
Idx(xs, t1, t2) == [r \in DOMAIN xs |-> InBin(xs[r], t1, t2)]

AllFinite(ybv) == \A r \in DOMAIN ybv : ~IsNaN(ybv[r])

\* Lines 718-722 and 729: np.nansum(wbv * ybv) / np.nansum(wbv), kept as the
\* expression itself: the pairs (x - center, y) of the bin and the weighting
\* scale (NaN for weight=None, where every wbv is 1).
WeightedMean(xbv, ybv, center, weight) ==
    <<"nansum(wbv*ybv)/nansum(wbv)", [r \in DOMAIN ybv |-> <<xbv[r] - center, ybv[r]>>],
      weight>>

\* Lines 726-729.
Bin2Value(xbv, ybv, center, median, weight) ==
    IF median THEN NanMedian(ybv) ELSE WeightedMean(xbv, ybv, center, weight)

\* Line 732: mad_std(ybv), as 4 * median(|ybv - median(ybv)|); np.median of
\* an array holding a NaN is NaN.
Bin2Error(ybv) == IF AllFinite(ybv) THEN Num(Mad4(Vals(ybv))) ELSE NaN

\* Line 733: np.sum(~np.isnan(ybv)).
Bin2Count(ybv) == Num(Len(Finite(ybv)))

\* Line 734: np.sum(ybv).
Bin2Sum(ybv) == IF AllFinite(ybv) THEN Num(SeqSum(Vals(ybv))) ELSE NaN

\* One turn of the loop of lines 709-734, for the bin (t1, t2) and the
\* observations (xbv, ybv) inside it.
Bin2Entry(xbv, ybv, t1, t2, median, weight) ==
    IF Len(ybv) = 0
    THEN [xb |-> EmptyBinCenter(t1, t2), yb |-> NaN, eb |-> NaN, nb |-> NaN, sb |-> NaN]
    ELSE [xb |-> Num(BinCenter(t1, t2)),
          yb |-> Bin2Value(xbv, ybv, BinCenter(t1, t2), median, weight),
          eb |-> Bin2Error(ybv),
          nb |-> Bin2Count(ybv),
          sb |-> Bin2Sum(ybv)]

Bin2Entries(xs, ys, steps, window, median, weight) ==
    [k \in DOMAIN steps |->
        Bin2Entry(Mask(xs, Idx(xs, steps[k], steps[k] + window)),
                  Mask(ys, Idx(xs, steps[k], steps[k] + window)),
                  steps[k], steps[k] + window, median, weight)]

Bin2Columns(e) ==
    [xb |-> [k \in DOMAIN e |-> e[k].xb], yb |-> [k \in DOMAIN e |-> e[k].yb],
     eb |-> [k \in DOMAIN e |-> e[k].eb], nb |-> [k \in DOMAIN e |-> e[k].nb],
     sb |-> [k \in DOMAIN e |-> e[k].sb]]

\* binning2(x, y, xmin, xmax, dx, window, interp=False, median, weight).
binning2(xs, ys, xmin, xmax, dx, window, median, weight) ==
    Bin2Columns(Bin2Entries(xs, ys, ARange(xmin, xmax, dx), window, median, weight))

(***************************************************************************)
(* bin_mission (lines 104-184).                                            *)
(***************************************************************************)
Geosat == 8          \* line 130
HalfYear == 12       \* line 131: win = 6/12.

\* Line 108: np.unique(mi), ascending.
RECURSIVE Unique(_)
Unique(S) ==
    IF S = {} THEN <<>>
    ELSE LET least == CHOOSE v \in S : \A w \in S : v <= w
         IN  <<least>> \o Unique(S \ {least})

\* Line 124.
OfMission(obs, m) == Mask(obs, [r \in DOMAIN obs |-> obs[r].m = m])

\* Lines 140-142 left out: every entry of the smoothing window is kept.
KeepInterpolated(v, orig) == v

\* Lines 140-142: entries where h_o is NaN are removed.
RemoveInterpolated(v, orig) == [k \in DOMAIN v |-> IF IsNaN(orig[k]) THEN NaN ELSE v[k]]

\* Lines 145-171: the total error of a bin is a number wherever eb is one
\* (the mission rms ei[im].mean() is taken to be finite).
TotalError(eb) == [k \in DOMAIN eb |-> IF IsNaN(eb[k]) THEN NaN ELSE <<"et">>]

\* Lines 181-182: hbi[(nbi < 1)] = np.nan.
Reject(v, counts) ==
    [r \in DOMAIN v |->
        [k \in DOMAIN v[r] |->
            IF ~IsNaN(counts[r][k]) /\ Val(counts[r][k]) < 1 THEN NaN ELSE v[r][k]]]

SetRow(matrix, r, row) == [matrix EXCEPT ![r] = row]

\* Lines 121-178: the turn of the loop for mission mu[bm_i + 1].
BinMissionRow ==
    /\ bm_pc = "loop"
    /\ bm_i < Len(mu)
    /\ win' = IF mu[bm_i + 1] = Geosat THEN HalfYear ELSE win
    /\ b2' = binning2(Times(OfMission(bm_obs, mu[bm_i + 1])),
                      Heights(OfMission(bm_obs, mu[bm_i + 1])),
                      tstart, tstop, tstep, win', FALSE, wi)
    /\ h_o' = binning2(Times(OfMission(bm_obs, mu[bm_i + 1])),
                       Heights(OfMission(bm_obs, mu[bm_i + 1])),
                       tstart, tstop, tstep, DX, TRUE, NaN).yb
    /\ hbi' = SetRow(hbi, bm_i + 1, RemoveInterpolated(b2'.yb, h_o'))
    /\ ebi' = SetRow(ebi, bm_i + 1, TotalError(RemoveInterpolated(b2'.eb, h_o')))
    /\ mbi' = SetRow(mbi, bm_i + 1, [k \in DOMAIN b2'.xb |-> Num(mu[bm_i + 1])])
    /\ tbi' = SetRow(tbi, bm_i + 1, b2'.xb)
    /\ nbi' = SetRow(nbi, bm_i + 1, RemoveInterpolated(b2'.nb, h_o'))
    /\ bm_i' = bm_i + 1
    /\ UNCHANGED <<bm_obs, tstart, tstop, tstep, wi, mu, bm_pc>>
    /\ UNCHANGED binOthers

\* Lines 180-184.
BinMissionReturn ==
    /\ bm_pc = "loop"
    /\ bm_i = Len(mu)
    /\ hbi' = Reject(hbi, nbi)
    /\ ebi' = Reject(ebi, nbi)
    /\ bm_pc' = "done"
    /\ UNCHANGED <<bm_obs, tstart, tstop, tstep, win, wi, mu, bm_i, b2, h_o, tbi, nbi, mbi>>
    /\ UNCHANGED binOthers

\* The inputs explored: observations at a few times around the span
\* [tstart, tstop), of missions before, at and after Geosat.
BinTimes == {0 - 1, 0, 2, 5, 7}
BinHeights == {NaN, Num(Quarter), Num(3 * Quarter)}
BinMissions == {3, Geosat, 9}
BinStops == {4, 6}
BinWindows == {DX, 6, HalfYear}     \* 1, 3 and 6 months
BinWeights == {NaN, Num(6)}         \* None and 3 months

\* The order of the observations is immaterial to every reduction above:
\* they are listed by mission, then time, then height.
ObsKey(o) == (o.m * 16 + (o.t + 1)) * 32 + (IF IsNaN(o.h) THEN 0 ELSE Val(o.h))
BinInputs ==
    {s \in UNION {[1..len -> [t : BinTimes, h : BinHeights, m : BinMissions]] :
                     len \in 0..MaxBinObs} :
        \A r \in DOMAIN s : r > 1 => ObsKey(s[r - 1]) <= ObsKey(s[r])}

NaNMatrix(rows, cols) == [r \in 1..rows |-> [k \in 1..cols |-> NaN]]

\* Lines 104-118.
InitBin ==
    /\ bm_obs \in BinInputs
    /\ tstart = 0
    /\ tstop \in BinStops
    /\ tstep = DX
    /\ win \in BinWindows
    /\ wi \in BinWeights
    /\ mu = Unique({bm_obs[r].m : r \in DOMAIN bm_obs})
    /\ bm_i = 0
    /\ b2 = <<>>
    /\ h_o = <<>>
    /\ tbi = NaNMatrix(Len(mu), Len(ARange(tstart, tstop, tstep)))
    /\ hbi = tbi /\ ebi = tbi /\ nbi = tbi /\ mbi = tbi
    /\ bm_pc = "loop"
    /\ LsqIdle
    /\ CCIdle
    /\ NsIdle
    /\ MainIdle
    /\ CalIdle
    /\ FxIdle
    /\ DmIdle

NextBin == BinMissionRow \/ BinMissionReturn

SpecBin == InitBin /\ [][NextBin]_vars

(***************************************************************************)
(* Claims about binning2 and bin_mission.                                  *)
(***************************************************************************)
BinSteps == ARange(tstart, tstop, tstep)

\* No observation of mission m lies in the bin that starts at step s.
NoneInBin(m, s, window) ==
    \A r \in DOMAIN bm_obs : bm_obs[r].m = m => ~InBin(bm_obs[r].t, s, s + window)

\* C5: what binning2 returns for a mission, and the row bin_mission stacks
\* for it, have one entry per step of [tstart, tstop); the center of every
\* entry is step + window/2 for the window used for that mission, and the
\* value of a step whose bin holds no observation is missing.
C5_OneEntryPerStep ==
    bm_i > 0 =>
        /\ Len(b2.xb) = Len(BinSteps) /\ Len(b2.yb) = Len(BinSteps)
        /\ Len(h_o) = Len(BinSteps)
        /\ Len(tbi[bm_i]) = Len(BinSteps) /\ Len(hbi[bm_i]) = Len(BinSteps)
        /\ \A k \in DOMAIN BinSteps :
              /\ b2.xb[k] = Num(BinSteps[k] + win \div 2)
              /\ tbi[bm_i][k] = Num(BinSteps[k] + win \div 2)
              /\ NoneInBin(mu[bm_i], BinSteps[k], win) =>
                    IsNaN(b2.yb[k]) /\ IsNaN(hbi[bm_i][k])

\* A row with a step that has no observation and a step that has a value.
C5_Witness ==
    /\ bm_pc = "done"
    /\ bm_i > 0
    /\ \E k \in DOMAIN BinSteps :
          NoneInBin(mu[bm_i], BinSteps[k], win) /\ IsNaN(hbi[bm_i][k])
    /\ \E k \in DOMAIN BinSteps : ~IsNaN(hbi[bm_i][k])

(***************************************************************************)
(* interp2d (lines 857-885) and normalize_seasonal (lines 887-947).        *)
(*                                                                         *)
(* A raster is a matrix of nodes, first row northmost; coordinates are in  *)
(* quarters of the node spacing and coefficients are even integers.        *)
(***************************************************************************)
GridStep == 4        \* the node spacing, in quarters

\* np.flipud.
flipud(m) == [r \in DOMAIN m |-> m[Len(m) + 1 - r]]

\* Lines 878-879, as GridStep times the fractional index.
FractionalIndex(q, axis) ==
    ((q - axis[1]) * (Len(axis) - 1) * GridStep) \div (axis[Len(axis)] - axis[1])

\* map_coordinates(data, coord, order=1) at a point strictly inside a cell:
\* the bilinear mean of the four nodes around it, NaN when one of them is NaN,
\* as GridStep^2 times the value.
Tap(data, r, c, w) == IF IsNaN(data[r][c]) THEN NaN ELSE Num(w * Val(data[r][c]))
Bilinear(taps) ==
    IF \E k \in DOMAIN taps : IsNaN(taps[k]) THEN NaN ELSE Num(SeqSum(Vals(taps)))
Node(p) == p \div GridStep + 1
Frac(p) == p % GridStep
map_coordinates(data, yp, xp) ==
    Bilinear(<<Tap(data, Node(yp), Node(xp), (GridStep - Frac(yp)) * (GridStep - Frac(xp))),
               Tap(data, Node(yp), Node(xp) + 1, (GridStep - Frac(yp)) * Frac(xp)),
               Tap(data, Node(yp) + 1, Node(xp), Frac(yp) * (GridStep - Frac(xp))),
               Tap(data, Node(yp) + 1, Node(xp) + 1, Frac(yp) * Frac(xp))>>)

\* interp2d(xd, yd, data, xq, yq, order=1) for one query point.
interp2d(xd, yd, data, xq, yq) ==
    map_coordinates(flipud(data),
                    FractionalIndex(yq, [r \in DOMAIN yd |-> flipud(yd)[r][1]]),
                    FractionalIndex(xq, flipud(xd)[1]))

\* The coordinate rasters Xm, Ym of a grid of two by two nodes.
Xm == << <<0, GridStep>>, <<0, GridStep>> >>
Ym == << <<GridStep, GridStep>>, <<0, 0>> >>

\* Lines 901-902: np.nanmedian(C[0:3, :, :], axis=0).
NanMedianLayers(stack) ==
    [r \in DOMAIN stack[1] |->
        [c \in DOMAIN stack[1][r] |->
            NanMedian([l \in DOMAIN stack |-> stack[l][r][c]])]]

\* Line 907: the reference class.
RefClass == 3
IsReference(m) == m < RefClass

\* Lines 929-932: the squares of a_ref and a_sat.
Square(v) == IF IsNaN(v) THEN NaN ELSE Num(Val(v) * Val(v))
Amplitude2(c0, c1) ==
    IF IsNaN(c0) \/ IsNaN(c1) THEN NaN ELSE Num(Val(Square(c0)) + Val(Square(c1)))

\* Line 939: a_ref / a_sat > 1.  The quotient is NaN (and the test false) when
\* an amplitude is NaN or both are 0, and +inf when only a_sat is 0.
QualityCheckReversed(aref2, asat2) ==
    ~IsNaN(aref2) /\ ~IsNaN(asat2) /\ Val(aref2) < Val(asat2)
QualityCheck(aref2, asat2) ==
    ~IsNaN(aref2) /\ ~IsNaN(asat2) /\ Val(aref2) > Val(asat2)

\* Lines 935-936 at an observation whose time is a whole number of quarter
\* years: sin(2 pi t) and cos(2 pi t) are 0, 1, 0, -1 and 1, 0, -1, 0.
Sin4(t) == <<0, 1, 0, 0 - 1>>[(t % 4) + 1]
Cos4(t) == <<1, 0, 0 - 1, 0>>[(t % 4) + 1]

\* Line 942: h_c = (1 - a_ref / a_sat) * (sin + cos): NaN when the quotient or
\* a coefficient is NaN, 0 when the quotient is 1 or the model value is 0, and
\* otherwise a non-zero number, kept as the expression.
SignalRemoved(aref2, asat2, c0m, c1m, t) ==
    IF IsNaN(aref2) \/ IsNaN(asat2) \/ Val(asat2) = 0 THEN NaN
    ELSE IF Val(aref2) = Val(asat2) THEN Num(0)
    ELSE IF Val(c0m) * Sin4(t) + Val(c1m) * Cos4(t) = 0 THEN Num(0)
    ELSE <<"(1-a_ref/a_sat)*", Val(c0m) * Sin4(t) + Val(c1m) * Cos4(t),
           Val(aref2), Val(asat2)>>

\* Line 918: the mean of the coordinates of the mission's observations.
MeanOf(s) == SeqSum(s) \div Len(s)
Xs(obs) == [r \in DOMAIN obs |-> obs[r].x]
Ys(obs) == [r \in DOMAIN obs |-> obs[r].y]

\* Lines 944-945: h_out[i_s] = h_c.
ChangeOutput(out, obs, m, aref2, asat2, c0m, c1m) ==
    [r \in DOMAIN out |->
        IF obs[r].m = m THEN SignalRemoved(aref2, asat2, c0m, c1m, obs[r].t)
        ELSE out[r]]

\* Lines 905-908: a mission of the reference class is not corrected.
NsReference ==
    /\ ns_pc = "loop"
    /\ kx < Len(ns_mi)
    /\ IsReference(ns_mi[kx + 1])
    /\ amps' = Append(amps, [m |-> ns_mi[kx + 1], c0r |-> NaN, c1r |-> NaN,
                             c0m |-> NaN, c1m |-> NaN])
    /\ kx' = kx + 1
    /\ UNCHANGED <<ns_obs, ref0, ref1, C0r, C1r, ns_mi, h_out, ns_pc>>
    /\ UNCHANGED nsOthers

\* Lines 910-945 for a mission outside the reference class.  The layers
\* C0[mi[kx]] and C1[mi[kx]] of the mission are read here for the first time:
\* they are any pair from Layers0 x Layers1.
LayerValues == {NaN, Num(0), Num(12), Num(16)}
Layers0 == {<< <<l, r>>, <<l, r>> >> : l \in LayerValues, r \in LayerValues}
Layers1 == {<< <<v, v>>, <<v, v>> >> : v \in {NaN, Num(0), Num(12)}}

NsMission ==
    /\ ns_pc = "loop"
    /\ kx < Len(ns_mi)
    /\ ~IsReference(ns_mi[kx + 1])
    /\ \E layer0 \in Layers0, layer1 \in Layers1 :
         amps' = Append(amps,
            [m |-> ns_mi[kx + 1],
             c0r |-> interp2d(Xm, Ym, C0r, MeanOf(Xs(OfMission(ns_obs, ns_mi[kx + 1]))),
                              MeanOf(Ys(OfMission(ns_obs, ns_mi[kx + 1])))),
             c1r |-> interp2d(Xm, Ym, C1r, MeanOf(Xs(OfMission(ns_obs, ns_mi[kx + 1]))),
                              MeanOf(Ys(OfMission(ns_obs, ns_mi[kx + 1])))),
             c0m |-> interp2d(Xm, Ym, layer0, MeanOf(Xs(OfMission(ns_obs, ns_mi[kx + 1]))),
                              MeanOf(Ys(OfMission(ns_obs, ns_mi[kx + 1])))),
             c1m |-> interp2d(Xm, Ym, layer1, MeanOf(Xs(OfMission(ns_obs, ns_mi[kx + 1]))),
                              MeanOf(Ys(OfMission(ns_obs, ns_mi[kx + 1]))))])
    /\ h_out' = IF QualityCheck(Amplitude2(amps'[kx + 1].c0r, amps'[kx + 1].c1r),
                                Amplitude2(amps'[kx + 1].c0m, amps'[kx + 1].c1m))
                THEN h_out
                ELSE ChangeOutput(h_out, ns_obs, ns_mi[kx + 1],
                                  Amplitude2(amps'[kx + 1].c0r, amps'[kx + 1].c1r),
                                  Amplitude2(amps'[kx + 1].c0m, amps'[kx + 1].c1m),
                                  amps'[kx + 1].c0m, amps'[kx + 1].c1m)
    /\ kx' = kx + 1
    /\ UNCHANGED <<ns_obs, ref0, ref1, C0r, C1r, ns_mi, ns_pc>>
    /\ UNCHANGED nsOthers

\* Line 947.
NsReturn ==
    /\ ns_pc = "loop"
    /\ kx = Len(ns_mi)
    /\ ns_pc' = "done"
    /\ UNCHANGED <<ns_obs, ref0, ref1, C0r, C1r, ns_mi, kx, amps, h_out>>
    /\ UNCHANGED nsOthers

\* The inputs explored.  Per mission: no observation, one observation, or
\* two observations a quarter year apart at different places.
NsMissions == {1, 3, 4}
NsPatterns == {<<>>, <<[x |-> 1, y |-> 1, t |-> 0]>>,
               <<[x |-> 1, y |-> 1, t |-> 0], [x |-> 3, y |-> 3, t |-> 1]>>}
RECURSIVE NsSeries(_, _)
NsSeries(pat, ms) ==
    IF ms = {} THEN <<>>
    ELSE LET m == CHOOSE v \in ms : \A w \in ms : v <= w
         IN  [r \in DOMAIN pat[m] |-> [x |-> pat[m][r].x, y |-> pat[m][r].y,
                                       t |-> pat[m][r].t, m |-> m]]
             \o NsSeries(pat, ms \ {m})

Uniform(v) == << <<v, v>>, <<v, v>> >>
RefStacks0 == {<<Uniform(Num(0)), Uniform(Num(0)), Uniform(Num(0))>>,
               <<Uniform(Num(12)), Uniform(Num(12)), Uniform(NaN)>>,
               <<Uniform(NaN), Uniform(NaN), Uniform(NaN)>>}
RefStacks1 == {<<Uniform(Num(0)), Uniform(Num(16)), Uniform(Num(16))>>,
               <<Uniform(Num(0)), Uniform(Num(0)), Uniform(NaN)>>,
               <<Uniform(Num(12)), Uniform(NaN), Uniform(Num(20))>>}

\* Lines 887-902.
InitNs ==
    /\ \E pat \in [NsMissions -> NsPatterns] : ns_obs = NsSeries(pat, NsMissions)
    /\ ref0 \in RefStacks0
    /\ ref1 \in RefStacks1
    /\ C0r = NanMedianLayers(ref0)
    /\ C1r = NanMedianLayers(ref1)
    /\ ns_mi = Unique({ns_obs[r].m : r \in DOMAIN ns_obs})
    /\ kx = 0
    /\ amps = <<>>
    /\ h_out = [r \in DOMAIN ns_obs |-> Num(0)]
    /\ ns_pc = "loop"
    /\ LsqIdle
    /\ CCIdle
    /\ BinIdle
    /\ MainIdle
    /\ CalIdle
    /\ FxIdle
    /\ DmIdle

NextNs == NsReference \/ NsMission \/ NsReturn

SpecSeason == InitNs /\ [][NextNs]_vars

(***************************************************************************)
(* Claims about normalize_seasonal.                                        *)
(***************************************************************************)
\* The corrections of the observations of the mission visited k-th.
OutOf(k) == {h_out[r] : r \in {q \in DOMAIN ns_obs : ns_obs[q].m = amps[k].m}}

ARef2(k) == Amplitude2(amps[k].c0r, amps[k].c1r)
ASat2(k) == Amplitude2(amps[k].c0m, amps[k].c1m)
Below(k) == ~IsNaN(ARef2(k)) /\ ~IsNaN(ASat2(k)) /\ Val(ASat2(k)) < Val(ARef2(k))
AtLeast(k) == ~IsNaN(ARef2(k)) /\ ~IsNaN(ASat2(k)) /\ Val(ASat2(k)) >= Val(ARef2(k))
IsNumber(v) == Len(v) = 1 \/ Len(v) = 4

\* C6: the correction is exactly 0 for every observation of a mission with
\* id < 3 and of a mission whose amplitude is below the reference amplitude,
\* whatever the rasters hold; a correction that is a non-zero number belongs
\* to a mission with id >= 3 whose amplitude is at least the reference
\* amplitude.  (An amplitude that is NaN, or two amplitudes that are 0, leave
\* the correction NaN, a missing value.)
C6_NoAmplification ==
    /\ \A k \in DOMAIN amps :
          /\ amps[k].m < RefClass => OutOf(k) \subseteq {Num(0)}
          /\ (amps[k].m >= RefClass /\ Below(k)) => OutOf(k) \subseteq {Num(0)}
          /\ \A v \in OutOf(k) :
                (IsNumber(v) /\ v # Num(0)) => (amps[k].m >= RefClass /\ AtLeast(k))
          /\ \A v \in OutOf(k) :
                IsNaN(v) => (amps[k].m >= RefClass /\ ~Below(k) /\ 
                             (IsNaN(ARef2(k)) \/ IsNaN(ASat2(k)) \/ Val(ASat2(k)) = 0))
    /\ \A r \in DOMAIN ns_obs :
          (\A k \in DOMAIN amps : amps[k].m # ns_obs[r].m) => h_out[r] = Num(0)

\* A reference mission, a mission below the reference amplitude (both with a
\* correction of 0) and a mission above it with a non-zero correction.
C6_Witness ==
    /\ ns_pc = "done"
    /\ \E k \in DOMAIN amps : amps[k].m < RefClass /\ OutOf(k) = {Num(0)}
    /\ \E k \in DOMAIN amps :
          /\ amps[k].m >= RefClass /\ Below(k) /\ Val(ASat2(k)) > 0
          /\ OutOf(k) = {Num(0)}
    /\ \E k \in DOMAIN amps :
          /\ amps[k].m >= RefClass /\ AtLeast(k)
          /\ \E v \in OutOf(k) : Len(v) = 4

(***************************************************************************)
(* main (lines 1118-1637): the prediction loop over the grid cells and the *)
(* save step.  A cell is followed through the counts its neighbourhood     *)
(* gives at each step; times are in months here.                           *)
(***************************************************************************)
Span == 27 * 12      \* lines 1349 and 1452: the months from 1992 to 2019
TrendCols == 7       \* line 452: the columns of the standard design matrix
PctLimit == 70       \* line 1299
OddCount == 5        \* line 1322

\* len(np.arange(lo, hi, step)).
ARangeLen(lo, hi, step) == IF hi > lo THEN (hi - lo + step - 1) \div step ELSE 0

\* Lines 1296-1300: the constraints under which the inner loop is left by break.
Constraints(nobs, dt, nsen, npct) ==
    nobs > nlim /\ dt > dtlim /\ nsen >= nmlim /\ npct > PctLimit

\* Lines 1257-1300: nobs, dt, npct and nsen after the loop `for ii in
\* range(1)`.  The loop has one turn: it ends the same way by break (line
\* 1300), by continue (lines 1279 and 1290) or by running out.  An empty
\* neighbourhood keeps the values of lines 1257-1266, a neighbourhood whose
\* time bins are empty (t_sample) keeps npct = 1.
Coverage(nb) ==
    IF nb.nobs = 0 THEN [nobs |-> 0, dt |-> 0, npct |-> 100, nsen |-> 0, left |-> "continue"]
    ELSE [nobs |-> nb.nobs, dt |-> nb.dt, npct |-> nb.npct, nsen |-> nb.nsen,
          left |-> IF nb.dt = 0 THEN "continue"
                   ELSE IF Constraints(nb.nobs, nb.dt, nb.nsen, nb.npct) THEN "break"
                   ELSE "end"]

\* Line 1303.
FinalTest(c) == c.nobs < nlim \/ c.dt < dtlim \/ c.npct < 0

\* Lines 1349-1361: the binned vectors have one entry per mission and step.
BinnedLen(nb) == nb.nsen * ARangeLen(0, Span, tstep_)

\* Lines 1373 and 1383: design_matrix gives 7 + len(np.unique(m)) columns, and
\* lsq_solve leaves its loop at the first pass, x unbound, unless there are more
\* than n_lim + 1 valid observations.
Unsolvable(nb) == ~CanSolve(nb.nbins, TrendCols + nb.nsen)

\* Line 1517: horg -= h_cal_tot, horg holding the observations inside the cell.
InPlaceFits(len_out, len_in) == len_in = len_out \/ len_in = 1
\* Lines 1577 and 1580: elev - h_cal_tot.
Broadcasts(len_a, len_b) == len_a = len_b \/ len_a = 1 \/ len_b = 1

\* What becomes of a cell with neighbourhood nb: the line at which its turn of
\* the loop ends by continue ("skip"), by an exception ("raise"), or 0.
SkippedAt(nb) ==
    IF FinalTest(Coverage(nb)) THEN 1303
    ELSE IF nb.ncell = OddCount THEN 1322
    ELSE IF nb.nbins < nlim THEN 1367
    ELSE 0
RaisedAt(nb) ==
    IF SkippedAt(nb) # 0 THEN 0
    ELSE IF Unsolvable(nb) THEN 1383
    ELSE IF apply /\ ~InPlaceFits(nb.ncell, BinnedLen(nb)) THEN 1517
    ELSE 0

\* The neighbourhoods explored: the observations within the search radius
\* (nobs), their time span in months (dt), their missions (nsen), the
\* percentage of populated months (npct), the observations inside the cell
\* (ncell) and the populated bins after bin_mission (nbins).  A one-month bin
\* includes both its edges, so an observation populates at most two bins, and
\* a mission at most dt + 2 of them and at most one per step.
Hoods ==
    {nb \in [nobs : {0, 5, 12}, dt : {0, 6, 8}, nsen : 0..2, npct : {50, 100},
             ncell : {0, 3, 5, 12}, nbins : {0, 2, 9, 10, 12}] :
        /\ nb.nobs = 0 => (nb.dt = 0 /\ nb.nsen = 0 /\ nb.npct = 100
                           /\ nb.ncell = 0 /\ nb.nbins = 0)
        /\ nb.nobs > 0 => (nb.nsen >= 1 /\ nb.ncell > 0 /\ nb.nbins > 0)
        /\ nb.dt = 0 => nb.npct = 100
        /\ nb.ncell <= nb.nobs
        /\ nb.nbins <= 2 * nb.nobs
        /\ nb.nbins <= nb.nsen * (nb.dt + 2)}
Fits(nb) == nb.nobs <= NPoints /\ nb.nobs <= elev /\ nb.nbins <= BinnedLen(nb)

\* Lines 1254-1367: a cell that is skipped appends nothing.
CellSkipped ==
    /\ main_pc = "loop"
    /\ cell_i < MaxCells
    /\ \E nb \in Hoods :
          /\ Fits(nb)
          /\ SkippedAt(nb) # 0
          /\ hood' = nb
    /\ cell_i' = cell_i + 1
    /\ UNCHANGED <<nlim, dtlim, nmlim, rcali, apply, serie, tstep_, elev, h_cal_tot, outs,
                   h_cal, main_pc, raised_at>>
    /\ UNCHANGED mainOthers

\* Lines 1254-1517: lsq_solve (line 1383) or the in-place subtraction (line
\* 1517) raises; nothing catches it and main is left.
CellRaised ==
    /\ main_pc = "loop"
    /\ cell_i < MaxCells
    /\ \E nb \in Hoods :
          /\ Fits(nb)
          /\ RaisedAt(nb) # 0
          /\ hood' = nb
    /\ raised_at' = RaisedAt(hood')
    /\ h_cal_tot' = IF raised_at' = 1517
                    THEN [of |-> <<"bins", cell_i>>, len |-> BinnedLen(hood')]
                    ELSE h_cal_tot
    /\ main_pc' = "raised"
    /\ UNCHANGED <<nlim, dtlim, nmlim, rcali, apply, serie, tstep_, elev, cell_i, outs, h_cal>>
    /\ UNCHANGED mainOthers

\* Lines 1254-1539: the cell is fitted; h_cal_tot is bound to h_cal_fit +
\* h_cal_res (lines 1429 and 1438), a vector over the binned series of this
\* cell, and the cell is appended to the output lists.
CellAppended ==
    /\ main_pc = "loop"
    /\ cell_i < MaxCells
    /\ \E nb \in Hoods :
          /\ Fits(nb)
          /\ SkippedAt(nb) = 0
          /\ RaisedAt(nb) = 0
          /\ hood' = nb
    /\ h_cal_tot' = [of |-> <<"bins", cell_i>>, len |-> BinnedLen(hood')]
    /\ outs' = Append(outs, [cell |-> cell_i, h_ct |-> h_cal_tot'.len,
                             dims |-> <<hood'.nsen, ARangeLen(0, Span, tstep_)>>])
    /\ cell_i' = cell_i + 1
    /\ UNCHANGED <<nlim, dtlim, nmlim, rcali, apply, serie, tstep_, elev, h_cal, main_pc,
                   raised_at>>
    /\ UNCHANGED mainOthers

\* Lines 1541-1580: the lists are saved (serie), or h_cal_tot is saved as the
\* field h_cal and, with apply, elev - h_cal_tot as the heights.
MainSave ==
    /\ main_pc = "loop"
    /\ cell_i = MaxCells
    /\ IF serie
       THEN h_cal' = h_cal /\ main_pc' = "done" /\ raised_at' = raised_at
       ELSE /\ h_cal' = h_cal_tot
            /\ IF apply /\ ~Broadcasts(elev, h_cal_tot.len)
               THEN main_pc' = "raised" /\ raised_at' = 1580
               ELSE main_pc' = "done" /\ raised_at' = raised_at
    /\ UNCHANGED <<nlim, dtlim, nmlim, rcali, apply, serie, tstep_, elev, cell_i, hood,
                   h_cal_tot, outs>>
    /\ UNCHANGED mainOthers

\* Lines 1085-1102 and 1233-1251.
InitMain ==
    /\ nlim \in {5, 12}
    /\ dtlim \in {0, 6}
    /\ nmlim \in {1, 2}
    /\ rcali \in BOOLEAN
    /\ apply \in BOOLEAN
    /\ serie \in BOOLEAN
    /\ tstep_ \in {1, 27}
    /\ elev \in {NPoints, NPoints + 1}
    /\ cell_i = 0
    /\ hood = <<>>
    /\ h_cal_tot = [of |-> <<"points">>, len |-> elev]
    /\ outs = <<>>
    /\ h_cal = NaN
    /\ main_pc = "loop"
    /\ raised_at = 0
    /\ LsqIdle
    /\ CCIdle
    /\ BinIdle
    /\ NsIdle
    /\ CalIdle
    /\ FxIdle
    /\ DmIdle

NextMain == CellSkipped \/ CellRaised \/ CellAppended \/ MainSave

SpecMain == InitMain /\ [][NextMain]_vars

(***************************************************************************)
(* Claims about main.                                                      *)
(***************************************************************************)
\* The cell visited last was appended to the output lists.
LastAppended ==
    /\ hood # <<>>
    /\ outs # <<>>
    /\ outs[Len(outs)].cell = cell_i - 1

\* C8: a cell is fitted and appended only if its neighbourhood has more
\* observations than the minimum, a longer time span than the minimum, at
\* least the minimum number of missions and a sampling fraction above 0.70.
C8_CoverageGate ==
    LastAppended =>
        /\ hood.nobs > nlim
        /\ hood.dt > dtlim
        /\ hood.nsen >= nmlim
        /\ hood.npct > PctLimit

\* C9: when the point cloud is saved, the field h_cal has one entry per
\* observation of the input, in the order of the point cloud.
C9_PerPointField ==
    (main_pc = "done" /\ ~serie) =>
        (h_cal.of = <<"points">> /\ h_cal.len = elev)

\* C10: no cell makes main raise: every cell is skipped or appended and the
\* loop goes on to the save step.
C10_NoAbort == main_pc # "raised"

\* The record a fitted cell appends to the output lists (lines 1520-1534).
CellRecord(i, nb) ==
    [cell |-> i, h_ct |-> BinnedLen(nb), dims |-> <<nb.nsen, ARangeLen(0, Span, tstep_)>>]

\* C11: a turn of the loop over the grid cells leaves the state shared by the
\* cells unchanged (the per-point container h_cal_tot among it) and writes at
\* most the record of its own cell, which its own neighbourhood determines.
C11_CellsIndependent ==
    [][(main_pc = "loop" /\ cell_i < MaxCells) =>
          /\ h_cal_tot' = h_cal_tot
          /\ outs' = outs \/ outs' = Append(outs, CellRecord(cell_i, hood'))]_vars

(***************************************************************************)
(* Further claims about cross_calibrate.                                   *)
(***************************************************************************)
\* |mean(f0) - mean(f1)| < av * (std(f0) + std(f1)), each spread that of its
\* own series, over the common denominator (c0*c1)^2: with
\*   Dn = (S0*c1 - S1*c0)^2, An = (c0*Q0 - S0^2)*c1^2, Bn = (c1*Q1 - S1^2)*c0^2
\* it is Dn - av^2*(An + Bn) < 2 * av^2 * sqrt(An * Bn).
OwnGap(c0, c1, S0, S1) == (S0 * c1 - S1 * c0) * (S0 * c1 - S1 * c0)
OwnSpread(c0, c1, S0, Q0) == (c0 * Q0 - S0 * S0) * c1 * c1
LessThanRoot(lhs, av, An, Bn) ==
    \/ lhs < 0
    \/ /\ lhs <= 2 * av * av * (IF An >= Bn THEN An ELSE Bn)
       /\ lhs * lhs < 4 * av * av * av * av * An * Bn
OwnOverlapMoments(c0, c1, S0, S1, Q0, Q1, av) ==
    /\ c0 > 0 /\ c1 > 0
    /\ LessThanRoot(OwnGap(c0, c1, S0, S1)
                      - av * av * (OwnSpread(c0, c1, S0, Q0) + OwnSpread(c1, c0, S1, Q1)),
                    av, OwnSpread(c0, c1, S0, Q0), OwnSpread(c1, c0, S1, Q1))
OwnOverlapFinite(f0, f1, av) ==
    OwnOverlapMoments(Len(f0), Len(f1), SeqSum(f0), SeqSum(f1),
                      SeqSum(Squares(f0)), SeqSum(Squares(f1)), av)
\* The (mean - a*std, mean + a*std) intervals of two binned series overlap.
OwnIntervalsOverlap(s0, s1, av) ==
    IF IsNaN(s0) \/ IsNaN(s1) THEN FALSE
    ELSE OwnOverlapFinite(FiniteVals(s0), FiniteVals(s1), av)

\* C12: a rule whose two groups have overlapping (mean - a*std, mean + a*std)
\* intervals, each with the group's own mean and standard deviation, gets the
\* difference zero and leaves the ledger as it was; for each of the three
\* rules and every a.
C12_OverlapGated ==
    [][(cc_i' = cc_i + 1 /\ OwnIntervalsOverlap(est'.b0, est'.b1, a))
         => (diff' = 0 /\ b_ref' = b_ref)]_vars

\* The rule just processed computed a difference of magnitude above the
\* sanity bound.
BeyondBound(e) == ~IsNaN(e.diff) /\ Abs(Val(e.diff)) > BiasLimit * Quarter

\* C13: a rule whose computed difference exceeds 10 units in magnitude gets
\* the difference zero, leaves the ledger as it was and does not increment
\* the success counter; every offset added to the ledger has magnitude at
\* most 10 and the ledger after k rules has magnitude at most 10 * k.
C13_SanityBound ==
    [][(cc_i' = cc_i + 1) =>
          /\ BeyondBound(est') => (diff' = 0 /\ b_ref' = b_ref /\ flag' = flag)
          /\ Abs(b_ref' - b_ref) <= BiasLimit * Quarter
          /\ \A k \in DOMAIN diffs' : Abs(diffs'[k]) <= BiasLimit * Quarter
          /\ Abs(b_ref') <= BiasLimit * Quarter * cc_i']_vars

\* The first rule resolved a non-zero offset and the second rule was gated by
\* the sanity bound alone, its computed difference being 12 units.
C13_Witness ==
    /\ cc_i = 2
    /\ gates = <<"none", "bias">>
    /\ est.diff = Num(12 * Quarter)
    /\ diff = 0
    /\ b_ref = diffs[1] /\ b_ref # 0
    /\ flag = 1

\* The difference of the rule is undefined: a group has no observation
\* inside the overlap window, or no monthly bin is populated for both groups.
NoCommonBin(e) ==
    IsNaN(e.b0) \/ IsNaN(e.b1) \/ \A k \in DOMAIN e.b0 : IsNaN(e.b0[k]) \/ IsNaN(e.b1[k])
Undefined(w, e) == w.t0 = <<>> \/ w.t1 = <<>> \/ NoCommonBin(e)

\* C14: a rule whose difference is undefined is gated and not an error: its
\* difference is zero, the ledger and the counter stay as they were, and the
\* call is still in its loop over the rules.
C14_UndefinedGated ==
    [][(cc_i' = cc_i + 1 /\ Undefined(sel', est')) =>
          /\ gates'[cc_i'] = "nan"
          /\ diff' = 0 /\ b_ref' = b_ref /\ flag' = flag /\ hb' = AssignBias(hb, cc_i, b_ref)
          /\ cc_pc' = "loop"]_vars

\* The first rule found no observation at all, the second rule resolved an
\* offset, the third rule had observations of one group only.
C14_Witness ==
    /\ cc_pc = "done"
    /\ gates = <<"nan", "none", "nan">>
    /\ sel.t0 # <<>> /\ sel.t1 = <<>>
    /\ diffs[2] # 0 /\ diffs[3] = 0
    /\ flag = 1

\* The rules processed so far that gave a non-zero, ungated difference.
Resolved == {k \in DOMAIN diffs : gates[k] = "none" /\ diffs[k] # 0}

\* C15: the success flag is the number of rules that yielded a non-zero,
\* ungated correction: 0 before the first rule, one more for each such rule,
\* unchanged by a gated rule, and between 0 and 3.
C15_FlagCountsResolved ==
    /\ flag = Cardinality(Resolved)
    /\ flag \in 0..NRules
    /\ cc_i = 0 => flag = 0
    /\ \A k \in DOMAIN diffs : gates[k] # "none" => diffs[k] = 0

\* A call that returns 2: the second rule was gated, the others resolved.
C15_Witness ==
    /\ cc_pc = "done"
    /\ flag = 2
    /\ gates[1] = "none" /\ gates[2] # "none" /\ gates[3] = "none"
    /\ diffs[1] # 0 /\ diffs[3] # 0

\* The rule processed last was gated to zero by the test criterion.
LastGated == cc_i > 0 /\ gates[cc_i] # "none"

\* C16 as stated: after a gated rule the correction of every observation of
\* that rule's group is zero, whatever the preceding rules gave.
C16_GatedGroupZero == LastGated => HbOf(mo[cc_i][1]) = {0}

\* C16 amended: after a gated rule every observation of that rule's group
\* carries the ledger left by the preceding rules, the sum of their ungated
\* offsets, which is zero when each preceding rule was gated; the other
\* groups keep what they had.
C16_GatedGroupCarriesLedger ==
    [][(cc_i' = cc_i + 1 /\ gates'[cc_i + 1] # "none") =>
          /\ \A p \in Probes :
                hb'[p] = IF p.m = mo[cc_i + 1][1] THEN b_ref ELSE hb[p]
          /\ b_ref = CumSum(diffs, cc_i)
          /\ (\A k \in DOMAIN gates : gates[k] # "none") =>
                \A p \in Probes : p.m = mo[cc_i + 1][1] => hb'[p] = 0]_vars

\* The first rule resolved an offset of 2 units and the second was gated: the
\* observations of group 2 carry the 2 units.
C16_Witness ==
    /\ cc_i = 2
    /\ gates[1] = "none" /\ diffs[1] = 2 * Quarter
    /\ LastGated
    /\ HbOf(2) = {2 * Quarter}

(***************************************************************************)
(* main, lines 1401-1438: the total correction of a fitted cell, Stage A   *)
(* from the bias columns of the fit and Stage B from cross_calibrate.      *)
(***************************************************************************)
\* Lines 1411-1420: the overlap group of a mission (NaN for the others).
Msat(mid) ==
    IF mid \in {6, 7, 8} THEN 0
    ELSE IF mid \in {4, 5} THEN 1
    ELSE IF mid \in {3, 0} THEN 2
    ELSE IF mid \in {1, 2} THEN 3
    ELSE NoGroup

\* The binned observations of the cell: one inside and one outside the
\* overlap windows for a mission of each group, for a second mission of
\* group 1 and for a mission of none.
CalMissions == {6, 5, 4, 3, 1, 9}
CalObs == [mid : CalMissions, inside : BOOLEAN]
ProbeOf(o) == [m |-> Msat(o.mid), inside |-> o.inside]

\* Line 1401: np.dot(Acap[:, cols], Cm[cols]); the bias columns of
\* design_matrix (lines 462-477) are the indicators of the missions, so an
\* observation gets the bias coefficient of its mission.
BiasFit(coef) == [o \in CalObs |-> coef[o.mid]]
Coefficients == {[mid \in CalMissions |-> Quarter * (mid - 3)]}

\* Lines 1432 and 1438: h_cal_fit + h_cal_res.
TotalFitOnly(fit, res) == fit
Total(fit, res) == [o \in DOMAIN fit |-> fit[o] + res[o]]

\* Line 1426: cross_calibrate(tcap, hcap, dh, msat, 0.0) is entered.
CCCalled(av) ==
    /\ a = av
    /\ cc_i = 0
    /\ sel = <<>> /\ est = <<>> /\ diff = 0 /\ gappy = FALSE
    /\ b_ref = 0
    /\ hb = [p \in Probes |-> 0]
    /\ flag = 0
    /\ gates = <<>>
    /\ diffs = <<>>
    /\ cc_pc = "loop"

\* Lines 1423-1432: cross_calibrate has returned hb and flag.
CalResidual ==
    /\ cal_pc = "fit"
    /\ rcali
    /\ cc_pc = "done"
    /\ h_cal_res' = [o \in CalObs |-> hb[ProbeOf(o)]]
    /\ cal_flag' = flag
    /\ h_cal_tot' = Total(h_cal_fit, h_cal_res')
    /\ cal_pc' = "done"
    /\ UNCHANGED <<nlim, dtlim, nmlim, rcali, apply, serie, tstep_, elev, cell_i, hood,
                   outs, h_cal, main_pc, raised_at, h_cal_fit>>
    /\ UNCHANGED ccVars
    /\ UNCHANGED calOthers

\* Lines 1435-1438: only the correction from the fit.
CalFitOnly ==
    /\ cal_pc = "fit"
    /\ ~rcali
    /\ h_cal_res' = [o \in CalObs |-> 0]
    /\ h_cal_tot' = Total(h_cal_fit, h_cal_res')
    /\ cal_pc' = "done"
    /\ UNCHANGED <<nlim, dtlim, nmlim, rcali, apply, serie, tstep_, elev, cell_i, hood,
                   outs, h_cal, main_pc, raised_at, h_cal_fit, cal_flag>>
    /\ UNCHANGED ccVars
    /\ UNCHANGED calOthers

\* Lines 1401-1408: h_cal_fit is computed, flag is 0, and with -b
\* cross_calibrate is called with a = 0.0.
InitCal ==
    /\ rcali \in BOOLEAN
    /\ h_cal_fit \in {BiasFit(coef) : coef \in Coefficients}
    /\ h_cal_res = <<>>
    /\ h_cal_tot = <<>>
    /\ cal_flag = 0
    /\ cal_pc = "fit"
    /\ IF rcali THEN CCCalled(0) ELSE CCIdle
    /\ nlim = 0 /\ dtlim = 0 /\ nmlim = 0 /\ apply = FALSE /\ serie = FALSE
    /\ tstep_ = 0 /\ elev = 0 /\ cell_i = 0 /\ hood = <<>> /\ outs = <<>>
    /\ h_cal = <<>> /\ main_pc = "idle" /\ raised_at = 0
    /\ LsqIdle
    /\ BinIdle
    /\ NsIdle
    /\ FxIdle
    /\ DmIdle

NextCal == CCRule \/ CCReturn \/ CalResidual \/ CalFitOnly

SpecCal == InitCal /\ [][NextCal]_vars

\* C17: the total correction of a cell is h_cal_fit + h_cal_res for every
\* observation; without residual cross-calibration h_cal_res is zero for
\* every observation, the total is h_cal_fit and the flag is 0; with it
\* h_cal_res and the flag are what cross_calibrate returned.
C17_TotalIsSum ==
    cal_pc = "done" =>
        /\ \A o \in CalObs : h_cal_tot[o] = h_cal_fit[o] + h_cal_res[o]
        /\ ~rcali => /\ \A o \in CalObs : h_cal_res[o] = 0
                     /\ h_cal_tot = h_cal_fit
                     /\ cal_flag = 0
        /\ rcali => /\ \A o \in CalObs : h_cal_res[o] = hb[ProbeOf(o)]
                    /\ cal_flag = flag

\* A cell with residual cross-calibration whose ERS-2 observations have a
\* non-zero correction of both stages.
C17_Witness ==
    /\ cal_pc = "done"
    /\ rcali
    /\ cal_flag > 0
    /\ \E o \in CalObs :
          /\ o.mid = 5
          /\ h_cal_fit[o] # 0 /\ h_cal_res[o] # 0
          /\ h_cal_tot[o] = h_cal_fit[o] + h_cal_res[o]

\* The sum of the computed differences of the ungated rules among the first
\* k rules, as recorded when each was processed.
RECURSIVE UngatedSum(_, _, _)
UngatedSum(ds, gs, k) ==
    IF k = 0 THEN 0
    ELSE (IF gs[k] = "none" THEN ds[k] ELSE 0) + UngatedSum(ds, gs, k - 1)

\* C18: a gated rule leaves the ledger as it was; an ungated rule adds its
\* computed difference; so the ledger is the sum of the offsets of the
\* ungated rules only, and the correction assigned to the group of an
\* ungated rule is that sum, whatever the data of the gated rules.
C18_GatedLeavesLedger ==
    [][(cc_i' = cc_i + 1) =>
          /\ gates'[cc_i + 1] # "none" => b_ref' = b_ref
          /\ gates'[cc_i + 1] = "none" =>
                /\ diffs'[cc_i + 1] = Val(est'.diff)
                /\ b_ref' = b_ref + Val(est'.diff)
          /\ b_ref' = UngatedSum(diffs', gates', cc_i + 1)
          /\ \A p \in Probes :
                p.m = mo[cc_i + 1][1] => hb'[p] = UngatedSum(diffs', gates', cc_i + 1)]_vars

\* The first rule resolved 2 units, the second was gated although its data
\* gave a difference of 12 units, the third resolved 3 units: the ledger and
\* the correction of group 3 are 5 units.
C18_Witness ==
    /\ cc_pc = "done"
    /\ gates = <<"none", "bias", "none">>
    /\ diffs = <<2 * Quarter, 0, 3 * Quarter>>
    /\ b_ref = 5 * Quarter
    /\ HbOf(3) = {5 * Quarter}

(***************************************************************************)
(* Further claims about lsq_solve.                                         *)
(***************************************************************************)
\* The solve-and-reject passes (lines 75-91) of the current call so far: n
\* counts the passes that flagged an observation, and a pass that flagged
\* none ended the loop without being counted.
SolvePasses == IF lsq_pc # "loop" /\ why = "converged" THEN n + 1 ELSE n
ValidCount(ym) == Len(Mask(ym, Valid(ym)))

\* C19: a call with cap n_iter performs at most n_iter solve-and-reject
\* passes; the valid observations never grow from pass to pass, and a pass
\* that does not stop the loop removes at least one of them.
C19_BoundedByCap ==
    [][/\ SolvePasses' <= n_iter'
       /\ (lsq_pc = "loop" /\ n <= n_iter) =>
             /\ ValidCount(y') <= ValidCount(y)
             /\ lsq_pc' = "loop" => ValidCount(y') < ValidCount(y)]_vars

(***************************************************************************)
(* binning (lines 187-212) called on its own.                              *)
(***************************************************************************)
MaxFixObs == 3   \* observations of a call
MaxFixTime == 7  \* the latest time of an observation, in half months

\* The calls explored: observations at whole half months, listed ascending
\* (a bin does not depend on their order), every y a number; one-month bins.
FixTimes == 0..MaxFixTime
FixSeries ==
    {xs \in UNION {[1..len -> FixTimes] : len \in 0..MaxFixObs} :
        \A r \in DOMAIN xs : r > 1 => xs[r - 1] <= xs[r]}
FixLows == {0, 1}
FixHighs == {4, 5}

\* Lines 187-212.
FixCall ==
    /\ fx_pc = "call"
    /\ fx_out' = binning(fx_x, fx_y, fx_min, fx_max, DX)
    /\ fx_pc' = "done"
    /\ UNCHANGED <<fx_x, fx_y, fx_min, fx_max>>
    /\ UNCHANGED fxOthers

InitFix ==
    /\ fx_x \in FixSeries
    /\ fx_y = [r \in DOMAIN fx_x |-> Num(Quarter * r)]
    /\ fx_min \in FixLows
    /\ fx_max \in FixHighs
    /\ fx_out = <<>>
    /\ fx_pc = "call"
    /\ LsqIdle
    /\ CCIdle
    /\ BinIdle
    /\ NsIdle
    /\ MainIdle
    /\ CalIdle
    /\ DmIdle

NextFix == FixCall

SpecFix == InitFix /\ [][NextFix]_vars

\* The observations with xmin <= x <= xmax, and the sum of the bin counts
\* (an empty bin, whose count is NaN, holds none).
InRange == {r \in DOMAIN fx_x : fx_x[r] >= fx_min /\ fx_x[r] <= fx_max}
RECURSIVE CountSum(_, _)
CountSum(nb, k) ==
    IF k = 0 THEN 0
    ELSE (IF IsNaN(nb[k]) THEN 0 ELSE Val(nb[k])) + CountSum(nb, k - 1)

\* C20: the bins do not overlap: the bin counts sum to the number of
\* observations with xmin <= x <= xmax, each of them being counted in
\* exactly one bin, an observation on an interior bin edge included.
C20_CountedOnce ==
    (fx_pc = "done" /\ ~fx_out.raised) =>
        CountSum(fx_out.nb, Len(fx_out.nb)) = Cardinality(InRange)

(***************************************************************************)
(* Further claims about bin_mission.                                       *)
(***************************************************************************)
\* No observation of mission m with a finite height lies in the one-month
\* bin (line 137: window=1./12) that starts at step s.
NoFiniteInMonth(m, s) ==
    \A r \in DOMAIN bm_obs :
        (bm_obs[r].m = m /\ ~IsNaN(bm_obs[r].h)) => ~InBin(bm_obs[r].t, s, s + DX)

\* An observation of mission m with a finite height lies in the bin of the
\* given window that starts at step s.
FiniteInWindow(m, s, window) ==
    \E r \in DOMAIN bm_obs :
        bm_obs[r].m = m /\ ~IsNaN(bm_obs[r].h) /\ InBin(bm_obs[r].t, s, s + window)

\* C21: for every mission stacked so far and every step, a step whose
\* one-month bin holds no finite observation of the mission has a missing
\* value, a missing error and a missing count, whatever the smoothing window
\* holds; and a step that reports a value has a count of at least 1.
C21_NoValueAcrossGap ==
    \A r \in 1..bm_i : \A k \in DOMAIN BinSteps :
        /\ NoFiniteInMonth(mu[r], BinSteps[k]) =>
              IsNaN(hbi[r][k]) /\ IsNaN(ebi[r][k]) /\ IsNaN(nbi[r][k])
        /\ ~IsNaN(hbi[r][k]) => (~IsNaN(nbi[r][k]) /\ Val(nbi[r][k]) >= 1)

\* The last mission is returned with a step that is blank although its
\* smoothing window, wider than a month, holds a finite observation, and
\* with a step that reports a value.
C21_Witness ==
    /\ bm_pc = "done"
    /\ bm_i > 0
    /\ win > DX
    /\ \E k \in DOMAIN BinSteps :
          /\ NoFiniteInMonth(mu[bm_i], BinSteps[k])
          /\ FiniteInWindow(mu[bm_i], BinSteps[k], win)
          /\ IsNaN(hbi[bm_i][k]) /\ IsNaN(ebi[bm_i][k]) /\ IsNaN(nbi[bm_i][k])
    /\ \E k \in DOMAIN BinSteps :
          ~IsNaN(hbi[bm_i][k]) /\ Val(nbi[bm_i][k]) >= 1

(***************************************************************************)
(* design_matrix (lines 442-479) and the Stage A correction main takes     *)
(* from it (lines 1373-1402).  Columns are counted from 0, as in the       *)
(* source; a row of A is a function on its column indices.                 *)
(***************************************************************************)
\* Lines 445-453: the seven columns 1, t, 0.5 t^2 and the four-term Fourier
\* series; the terms that are no integers are kept as expressions.
TrendRow(tv) ==
    [c \in 0..(TrendCols - 1) |->
        CASE c = 0 -> 1
          [] c = 1 -> tv
          [] c = 2 -> <<"0.5*t**2", tv>>
          [] c = 3 -> <<"cos(2*pi*t)", tv>>
          [] c = 4 -> <<"sin(2*pi*t)", tv>>
          [] c = 5 -> <<"cos(4*pi*t)", tv>>
          [] c = 6 -> <<"sin(4*pi*t)", tv>>]

\* Every row carries a 1, whatever its mission.
BiasColumnOfOnes(ms, mission) == [r \in DOMAIN ms |-> 1]

\* Lines 465-468: b = np.zeros((len(m), 1)); b[m == mi[i]] = 1.0.
BiasColumn(ms, mission) == [r \in DOMAIN ms |-> IF ms[r] = mission THEN 1 ELSE 0]

\* Line 471: np.hstack((A, b)) for a matrix A of the given width.
HStack(matrix, b, width) ==
    [r \in DOMAIN matrix |->
        [c \in 0..width |-> IF c < width THEN matrix[r][c] ELSE b[r]]]

\* Line 1402: np.dot(Acap[:, cols], Cm[cols]).
Dot(matrix, coef, cs) ==
    [r \in DOMAIN matrix |->
        SeqSum([j \in DOMAIN cs |-> matrix[r][cs[j]] * coef[cs[j]]])]

\* Lines 445-459: the trend columns, the missions present, an empty list.
DesignTrend ==
    /\ dm_pc = "call"
    /\ dm_A' = [r \in DOMAIN dm_t |-> TrendRow(dm_t[r])]
    /\ dm_mi' = Unique({dm_m[r] : r \in DOMAIN dm_m})
    /\ dm_cols' = <<>>
    /\ dm_i' = 0
    /\ dm_pc' = "loop"
    /\ UNCHANGED <<dm_t, dm_m, dm_Cm, dm_fit>>
    /\ UNCHANGED dmOthers

\* Lines 462-477: the turn of the loop for mission mi[i].
DesignBias ==
    /\ dm_pc = "loop"
    /\ dm_i < Len(dm_mi)
    /\ dm_A' = HStack(dm_A, BiasColumn(dm_m, dm_mi[dm_i + 1]), TrendCols + dm_i)
    /\ dm_cols' = Append(dm_cols, 7 + dm_i)
    /\ dm_i' = dm_i + 1
    /\ UNCHANGED <<dm_t, dm_m, dm_mi, dm_Cm, dm_fit, dm_pc>>
    /\ UNCHANGED dmOthers

\* Line 479, back in main at line 1373.
DesignReturn ==
    /\ dm_pc = "loop"
    /\ dm_i = Len(dm_mi)
    /\ dm_pc' = "solve"
    /\ UNCHANGED <<dm_t, dm_m, dm_A, dm_mi, dm_cols, dm_i, dm_Cm, dm_fit>>
    /\ UNCHANGED dmOthers

\* The coefficient vectors lsq_solve is taken to return for a matrix of the
\* given width: the columns have pairwise different coefficients.
Solutions(width) ==
    {[c \in 0..(width - 1) |-> Quarter * (c - 8)], [c \in 0..(width - 1) |-> 3 * (12 - c)]}

\* Lines 1383-1402, every height being finite: lsq_solve solves (line 74)
\* and h_cal_fit is the product of the bias columns and their coefficients.
DesignFit ==
    /\ dm_pc = "solve"
    /\ CanSolve(Len(dm_m), TrendCols + Len(dm_mi))
    /\ dm_Cm' \in Solutions(TrendCols + Len(dm_mi))
    /\ dm_fit' = Dot(dm_A, dm_Cm', dm_cols)
    /\ dm_pc' = "done"
    /\ UNCHANGED <<dm_t, dm_m, dm_A, dm_mi, dm_cols, dm_i>>
    /\ UNCHANGED dmOthers

\* Line 1383 with too few rows: lsq_solve leaves its loop without a solution
\* and line 102 raises.
DesignUnsolved ==
    /\ dm_pc = "solve"
    /\ ~CanSolve(Len(dm_m), TrendCols + Len(dm_mi))
    /\ dm_pc' = "raised"
    /\ UNCHANGED <<dm_t, dm_m, dm_A, dm_mi, dm_cols, dm_i, dm_Cm, dm_fit>>
    /\ UNCHANGED dmOthers

\* The inputs explored: up to MaxBlocks runs of one mission each, short or
\* long, in any order of the missions, at times one step apart.
DesignMissions == {3, 5, Geosat}
BlockLens == {1, 5}
DesignShifts == {0, 3}
DesignBlocks ==
    UNION {[1..len -> [mission : DesignMissions, len : BlockLens]] : len \in 0..MaxBlocks}

RECURSIVE Flatten(_)
Flatten(blocks) ==
    IF blocks = <<>> THEN <<>>
    ELSE [r \in 1..Head(blocks).len |-> Head(blocks).mission] \o Flatten(Tail(blocks))

InitDesign ==
    /\ \E blocks \in DesignBlocks : dm_m = Flatten(blocks)
    /\ \E shift \in DesignShifts : dm_t = [r \in DOMAIN dm_m |-> r - 1 - shift]
    /\ dm_A = <<>> /\ dm_mi = <<>> /\ dm_cols = <<>> /\ dm_i = 0
    /\ dm_Cm = <<>> /\ dm_fit = <<>>
    /\ dm_pc = "call"
    /\ LsqIdle
    /\ CCIdle
    /\ BinIdle
    /\ NsIdle
    /\ MainIdle
    /\ CalIdle
    /\ FxIdle

NextDesign == DesignTrend \/ DesignBias \/ DesignReturn \/ DesignFit \/ DesignUnsolved

SpecDesign == InitDesign /\ [][NextDesign]_vars

\* The missions present in m, and the number of them below a mission.
Present == {dm_m[r] : r \in DOMAIN dm_m}
Rank(mission) == Cardinality({w \in Present : w < mission})

\* C22: once design_matrix has returned, cols is 7, 8, ..., 7+k-1 for the k
\* distinct missions of m, every row of A has the 7 trend columns followed
\* by k indicator columns, and the indicator of a row is 1 in the column of
\* its own mission, counted in ascending mission order, and 0 elsewhere;
\* the Stage A correction of a row is then the coefficient of that column,
\* the same for all rows of one mission.
C22_OneIndicatorPerRow ==
    /\ dm_pc \in {"solve", "done", "raised"} =>
          /\ Len(dm_cols) = Cardinality(Present)
          /\ \A j \in DOMAIN dm_cols : dm_cols[j] = 7 + j - 1
          /\ \A r \in DOMAIN dm_A :
                /\ DOMAIN dm_A[r] = 0..(7 + Cardinality(Present) - 1)
                /\ \A c \in 7..(7 + Cardinality(Present) - 1) :
                      dm_A[r][c] = IF c = 7 + Rank(dm_m[r]) THEN 1 ELSE 0
    /\ dm_pc = "done" =>
          /\ DOMAIN dm_fit = DOMAIN dm_m
          /\ \A r \in DOMAIN dm_fit : dm_fit[r] = dm_Cm[7 + Rank(dm_m[r])]
          /\ \A r, q \in DOMAIN dm_fit : dm_m[r] = dm_m[q] => dm_fit[r] = dm_fit[q]

\* A fit over three missions that were not handed over in ascending order.
C22_Witness ==
    /\ dm_pc = "done"
    /\ Cardinality(Present) = 3
    /\ dm_m[1] > dm_m[Len(dm_m)]
    /\ \E r, q \in DOMAIN dm_fit : dm_fit[r] # dm_fit[q]

(***************************************************************************)
(* Further claims about the Stage B correction.                            *)
(***************************************************************************)
\* C23: the correction cross_calibrate holds for an observation, at every
\* point of the call, and the h_cal_res main takes from it depend on the
\* observation's group only: two observations of one group carry the same
\* value, inside or outside the overlap windows, and the observations of
\* group 0 and of missions that map to no group carry 0.
C23_GroupOnly ==
    /\ cc_pc # "idle" =>
          /\ \A p, q \in Probes : p.m = q.m => hb[p] = hb[q]
          /\ \A p \in Probes : p.m \in {0, NoGroup} => hb[p] = 0
    /\ (cal_pc = "done" /\ rcali) =>
          /\ \A o, q \in CalObs :
                Msat(o.mid) = Msat(q.mid) => h_cal_res[o] = h_cal_res[q]
          /\ \A o \in CalObs : Msat(o.mid) \in {0, NoGroup} => h_cal_res[o] = 0

\* A cell whose observations of the two ERS-2 missions, inside and outside
\* the windows, all carry one non-zero correction that differs from the one
\* of group 2, while those of ERS-1 and of the unmapped mission carry 0.
C23_Witness ==
    /\ cal_pc = "done"
    /\ rcali
    /\ \E o, q \in CalObs :
          /\ o.mid = 4 /\ q.mid = 5 /\ o.inside /\ ~q.inside
          /\ h_cal_res[o] # 0 /\ h_cal_res[o] = h_cal_res[q]
          /\ h_cal_fit[o] # h_cal_fit[q]
    /\ \E o, q \in CalObs :
          Msat(o.mid) = 1 /\ Msat(q.mid) = 2 /\ h_cal_res[o] # h_cal_res[q]
    /\ \A o \in CalObs : o.mid \in {6, 9} => h_cal_res[o] = 0

====
